---- MODULE Spec2Model ----
(***************************************************************************)
(* Orchestration and validation engine of onforall-go.                     *)
(*                                                                         *)
(*   Spec          one call of Dispatcher.runModulesWithConcurrency        *)
(*                 (internal/core/dispatcher.go): the goroutine per        *)
(*                 collector, the semaphore channel, the one-shot timeout  *)
(*                 channel "done", the WaitGroup and the "completed"       *)
(*                 channel.                                                *)
(*   SpecValidate  one call of DomainValidator.ValidateDomains             *)
(*                 (internal/validator/validator.go): deduplication, one   *)
(*                 goroutine per unique domain behind a semaphore, the     *)
(*                 DNS lookup and the two TCP probes of each.              *)
(*   SpecRunAll    Dispatcher.RegisterModule and one Dispatcher.RunAllModules *)
(*                 call: the steps in declaration order, each stage call   *)
(*                 by the lists it can return, then the validation and the *)
(*                 update of the per-stage results.                        *)
(*   SpecRunLib    Dispatcher.RegisterModule and one Dispatcher.RunLib     *)
(*                 call: the steps, the SubdomainResult of each collected  *)
(*                 string, the validation and the update of the results.   *)
(*   SpecBrute     one Brute instance (internal/brute/brute.go) run for    *)
(*                 two domains in turn: the resolvers, the wildcard        *)
(*                 detection, the dictionary and the lookups.              *)
(*   SpecPost      one PostProcessHosts call: a fetch goroutine per host   *)
(*                 behind a semaphore, the titles, the 403 answers.        *)
(*   SpecDedup     deduplicateDomains and uniqueStrings applied to a list  *)
(*                 and to their own output.                                *)
(*   SpecApi       one OneForAllAPI instance (pkg/api) and the             *)
(*                 RunSubdomainEnumeration calls made on it.               *)
(***************************************************************************)
EXTENDS Integers, Sequences, FiniteSets, TLC

\* ------------------------------------------------------------------ bounds
\* Largest number of collectors handed to one stage call.
MaxModules == 2
\* Largest configured concurrency (the semaphore capacity); 0 is included.
MaxConcurrency == 2

VARIABLES
    \* ---- runModulesWithConcurrency: inputs
    modules,        \* sequence of BOOLEAN: module.IsEnabled() of each collector
    concurrency,    \* capacity of the semaphore channel
    isBruteStep,    \* TRUE: no timeout is set up
    \* ---- runModulesWithConcurrency: locals and goroutines
    mpc,            \* position of the calling goroutine
    next,           \* index of the next module of the launch loop
    wpc,            \* position of each collector goroutine
    outcome,        \* what module.Run did: "none", "ok", "err", "panic", "skipped"
    semaphore,      \* number of tokens in the semaphore channel
    timer,          \* timeout goroutine: "none", "sleeping", "fired"
    done,           \* number of values in the buffered channel done (0 or 1)
    wg,             \* WaitGroup counter
    waiter,         \* goroutine of wg.Wait(): "none", "waiting", "sent"
    completed,      \* number of values in the buffered channel completed
    allResults,     \* the shared result slice
    errors,         \* the shared error slice (module index of each entry)
    ret,            \* the list the call returned
    retErr,         \* the error the call returned
    \* ---- history of the timeout
    pcAtFire,       \* wpc at the moment the timer fired ("-" before it fires)
    timerAtReturn,  \* timer at the moment the call returned ("-" before)
    \* ---- ValidateDomains: inputs and configuration
    domains,        \* the candidate list (each string a sequence of characters)
    vConcurrency,   \* capacity of the validator's semaphore channel
    excludePrivateIP, \* config.ExcludePrivateIP
    \* ---- ValidateDomains: locals and goroutines
    vpc,            \* position of the calling goroutine
    uniqueDomains,  \* result of deduplicateDomains
    vNext,          \* index of the next domain of the launch loop
    vwpc,           \* position of each validation goroutine
    vSemaphore,     \* number of tokens in the validator's semaphore channel
    vWg,            \* the validator's WaitGroup counter
    results,        \* the shared slice of ValidationResult
    vRet,           \* the slice ValidateDomains returned
    probe,          \* what the network answered to each goroutine
    \* ---- Dispatcher: configuration and registered modules
    registry,       \* the module slices of the Dispatcher, by field
    stepEnabled,    \* executionSteps[k].Enabled
    enableDomainValidation,  \* config.EnableDomainValidation
    validationConcurrency,   \* config.ValidationConcurrency
    \* ---- RunAllModules: locals
    rpc,            \* position of RunAllModules
    stepIdx,        \* index of the step of the loop over executionSteps
    stageResults,   \* results: map from ModuleType to the stage's list
    allSubdomains,  \* the candidates of all stages
    validationResults, \* what ValidateDomains returned
    \* ---- history of the run
    calls,          \* names of the steps whose stage call was made, in order
    collected,      \* the list each stage call returned, in call order
    validatorCalls, \* number of ValidateDomains calls
    validatorArg,   \* the candidate list handed to ValidateDomains
    resultsBefore   \* stageResults when ValidateDomains was called

stageVars == <<modules, concurrency, isBruteStep, mpc, next, wpc, outcome,
               semaphore, timer, done, wg, waiter, completed, allResults,
               errors, ret, retErr, pcAtFire, timerAtReturn>>

validateVars == <<domains, vConcurrency, excludePrivateIP, vpc, uniqueDomains,
                  vNext, vwpc, vSemaphore, vWg, results, vRet, probe>>

runVars == <<registry, stepEnabled, enableDomainValidation,
             validationConcurrency, rpc, stepIdx, stageResults, allSubdomains,
             validationResults, calls, collected, validatorCalls, validatorArg,
             resultsBefore>>

VARIABLES
    \* ---- Brute: files and configuration
    wordlistFile,   \* lines of data/subnames.txt, or "missing"
    bConcurrent,    \* b.concurrent
    domainQueue,    \* the domains main still has to process
    zone,           \* what the DNS holds for the domain of the current run
    \* ---- Brute: fields of the module instance
    nameservers,    \* b.nameservers
    bResults,       \* b.results: map from hostname to its resolved addresses
    enableWildcard, \* b.enableWildcard
    wildcardIPs,    \* b.wildcardIPs
    \* ---- Brute.Run: locals and goroutines
    bpc,            \* position of Run
    bDomain,        \* the domain argument of Run
    testSubdomains, \* the wildcard probes
    pNext,          \* index of the next probe of the launch loop
    pFlight,        \* indices of the probe goroutines holding a token
    successCount,   \* result.SuccessCount
    allIPs,         \* allIPs: map from address to number of occurrences
    wres,           \* the statistics of the WildcardDetectionResult
    subdomains,     \* the dictionary candidates
    dNext,          \* index of the next candidate of the launch loop
    dFlight,        \* indices of the candidate goroutines holding a token
    bRet,           \* the hostnames Run returned (a map's keys: no order)
    bErr,           \* the error Run returned
    \* ---- history of the runs
    queried,        \* hostnames resolved by the dictionary phase of this run
    runLog          \* one record per finished Run

bruteVars == <<wordlistFile, bConcurrent, domainQueue, zone, nameservers,
               bResults, enableWildcard, wildcardIPs, bpc, bDomain,
               testSubdomains, pNext, pFlight, successCount, allIPs, wres,
               subdomains, dNext, dFlight, bRet, bErr, queried, runLog>>

VARIABLES
    \* ---- RunLib: options and locals
    libOptions,     \* enable_validation, enable_brute_force, concurrency
    libResults      \* allResults: the SubdomainResult list

libVars == <<libOptions, libResults>>

VARIABLES
    \* ---- PostProcessHosts: inputs and configuration
    pInput,         \* the host list: number of hosts of each kind
    pLimit,         \* cfg.ResultCheckLimit
    pConcurrency,   \* cfg.ValidationConcurrency
    \* ---- PostProcessHosts: locals and goroutines
    ppc,            \* position of PostProcessHosts
    waiting,       \* goroutines without a token, by kind of host
    fetching,        \* goroutines holding a token, by kind of host
    okByTitle,      \* the titles that are keys of okByTitle
    okOrdered,      \* the first 200 answer of each title
    forbidden,      \* the 403 answers
    pFinal,         \* the returned list
    pNil            \* TRUE: nil was returned (nothing to replace)

postVars == <<pInput, pLimit, pConcurrency, ppc, waiting, fetching, okByTitle,
              okOrdered, forbidden, pFinal, pNil>>

VARIABLES
    \* ---- deduplication of a list
    dIn,            \* the list
    dFn,            \* the function applied: deduplicateDomains or uniqueStrings
    dOut            \* the outputs: of the list, then of the first output

dedupVars == <<dIn, dFn, dOut>>

VARIABLES
    \* ---- OneForAllAPI
    apiRegistry,    \* the module slices of api.dispatcher, by field
    apc,            \* position of the caller of the API
    apiCalls,       \* number of RunSubdomainEnumeration calls made
    apiOptions,     \* options of the last call, after the defaults
    apiResult,      \* the *Result the last call returned
    apiErr,         \* the error the last call returned ("" is nil)
    libCalls        \* the RunLib calls made: arguments and registered modules

apiVars == <<apiRegistry, apc, apiCalls, apiOptions, apiResult, apiErr,
             libCalls>>

vars == <<stageVars, validateVars, runVars, bruteVars, libVars, postVars,
          dedupVars, apiVars>>

\* What a specification of one operation leaves alone.
notStage == <<validateVars, runVars, bruteVars, libVars, postVars,
               dedupVars, apiVars>>
notValidate == <<stageVars, runVars, bruteVars, libVars, postVars,
                  dedupVars, apiVars>>
notRun == <<stageVars, validateVars, bruteVars, libVars, postVars,
             dedupVars, apiVars>>
notBrute == <<stageVars, validateVars, runVars, libVars, postVars,
               dedupVars, apiVars>>
notPost == <<stageVars, validateVars, runVars, bruteVars, libVars,
              dedupVars, apiVars>>
notDedup == <<stageVars, validateVars, runVars, bruteVars, libVars, postVars,
              apiVars>>
notApi == <<stageVars, validateVars, runVars, bruteVars, libVars, postVars,
            dedupVars>>

\* ------------------------------------------------------------------ helpers
Range(s) == {s[k] : k \in DOMAIN s}

Modules == 1..MaxModules

\* The list module i's Run returns when it succeeds: one candidate of its own,
\* so that a contribution can be traced to its collector.
RunOutput(i) == <<i>>

\* ------------------------------------------- runModulesWithConcurrency
\* A send on the semaphore channel can proceed while the buffer has room.
CanAcquireOff(sem, cap) == sem <= cap
CanAcquire(sem, cap) == sem < cap

\* The three "if !isBruteStep" tests: the timeout exists only off the brute step.
TimeoutAppliesAlways(brute) == TRUE
TimeoutApplies(brute) == ~brute

\* The error the stage call returns, given the collected errors: always nil.
StageErrorPropagated(errs) == IF Len(errs) > 0 THEN "error" ELSE "nil"
StageError(errs) == "nil"

StageInit ==
    /\ modules \in UNION {[1..n -> BOOLEAN] : n \in 0..MaxModules}
    /\ concurrency \in 0..MaxConcurrency
    /\ isBruteStep \in BOOLEAN
    /\ mpc = "entry"
    /\ next = 1
    /\ wpc = [i \in Modules |-> "idle"]
    /\ outcome = [i \in Modules |-> "none"]
    /\ semaphore = 0
    /\ timer = "none"
    /\ done = 0
    /\ wg = 0
    /\ waiter = "none"
    /\ completed = 0
    /\ allResults = <<>>
    /\ errors = <<>>
    /\ ret = <<>>
    /\ retErr = "-"
    /\ pcAtFire = [i \in Modules |-> "-"]
    /\ timerAtReturn = "-"

\* return allResults, nil
Return(list) ==
    /\ mpc' = "returned"
    /\ ret' = list
    /\ retErr' = StageError(errors)
    /\ timerAtReturn' = timer

\* Entry: the empty-list early return, else the semaphore and the timeout
\* goroutine are created.
Enter ==
    /\ mpc = "entry"
    /\ IF Len(modules) = 0
          THEN /\ Return(<<>>)
               /\ UNCHANGED timer
          ELSE /\ mpc' = "launch"
               /\ timer' = IF TimeoutApplies(isBruteStep) THEN "sleeping" ELSE "none"
               /\ UNCHANGED <<ret, retErr, timerAtReturn>>
    /\ UNCHANGED <<notStage, modules, concurrency, isBruteStep, next, wpc, outcome,
                   semaphore, done, wg, waiter, completed, allResults, errors,
                   pcAtFire>>

\* One iteration of "for _, module := range modules": a disabled module is
\* passed over, an enabled one gets wg.Add(1) and its goroutine.
Launch ==
    /\ mpc = "launch"
    /\ next <= Len(modules)
    /\ IF modules[next]
          THEN /\ wg' = wg + 1
               /\ wpc' = [wpc EXCEPT ![next] = "acquire"]
          ELSE UNCHANGED <<wg, wpc>>
    /\ next' = next + 1
    /\ UNCHANGED <<notStage, modules, concurrency, isBruteStep, mpc, outcome, semaphore,
                   timer, done, waiter, completed, allResults, errors, ret,
                   retErr, pcAtFire, timerAtReturn>>

\* After the loop: the goroutine of wg.Wait() is started and the caller waits.
StartWait ==
    /\ mpc = "launch"
    /\ next > Len(modules)
    /\ mpc' = "wait"
    /\ waiter' = "waiting"
    /\ UNCHANGED <<notStage, modules, concurrency, isBruteStep, next, wpc, outcome,
                   semaphore, timer, done, wg, completed, allResults, errors,
                   ret, retErr, pcAtFire, timerAtReturn>>

\* time.Sleep(timeout) ends and done <- true is sent (the buffer has room).
TimerFire ==
    /\ timer = "sleeping"
    /\ timer' = "fired"
    /\ done' = done + 1
    /\ pcAtFire' = [i \in Modules |-> wpc[i]]
    /\ UNCHANGED <<notStage, modules, concurrency, isBruteStep, mpc, next, wpc, outcome,
                   semaphore, wg, waiter, completed, allResults, errors, ret,
                   retErr, timerAtReturn>>

\* "semaphore <- struct{}{}": the collector takes a token and calls Run.
Acquire(i) ==
    /\ wpc[i] = "acquire"
    /\ CanAcquire(semaphore, concurrency)
    /\ semaphore' = semaphore + 1
    /\ wpc' = [wpc EXCEPT ![i] = "run"]
    /\ UNCHANGED <<notStage, modules, concurrency, isBruteStep, mpc, next, outcome, timer,
                   done, wg, waiter, completed, allResults, errors, ret, retErr,
                   pcAtFire, timerAtReturn>>

\* "case <-done": the collector receives the timeout value and returns.
Skip(i) ==
    /\ wpc[i] = "acquire"
    /\ TimeoutApplies(isBruteStep)
    /\ done > 0
    /\ done' = done - 1
    /\ outcome' = [outcome EXCEPT ![i] = "skipped"]
    /\ wpc' = [wpc EXCEPT ![i] = "wgdone"]
    /\ UNCHANGED <<notStage, modules, concurrency, isBruteStep, mpc, next, semaphore,
                   timer, wg, waiter, completed, allResults, errors, ret, retErr,
                   pcAtFire, timerAtReturn>>

\* module.Run returns a list: it is appended to allResults under the mutex.
RunOk(i) ==
    /\ wpc[i] = "run"
    /\ outcome' = [outcome EXCEPT ![i] = "ok"]
    /\ allResults' = allResults \o RunOutput(i)
    /\ wpc' = [wpc EXCEPT ![i] = "release"]
    /\ UNCHANGED <<notStage, modules, concurrency, isBruteStep, mpc, next, semaphore,
                   timer, done, wg, waiter, completed, errors, ret, retErr,
                   pcAtFire, timerAtReturn>>

\* module.Run returns an error: it is appended to errors under the mutex.
RunErr(i) ==
    /\ wpc[i] = "run"
    /\ outcome' = [outcome EXCEPT ![i] = "err"]
    /\ errors' = Append(errors, i)
    /\ wpc' = [wpc EXCEPT ![i] = "release"]
    /\ UNCHANGED <<notStage, modules, concurrency, isBruteStep, mpc, next, semaphore,
                   timer, done, wg, waiter, completed, allResults, ret, retErr,
                   pcAtFire, timerAtReturn>>

\* module.Run panics: the deferred calls run, last registered first.
RunPanic(i) ==
    /\ wpc[i] = "run"
    /\ outcome' = [outcome EXCEPT ![i] = "panic"]
    /\ wpc' = [wpc EXCEPT ![i] = "release"]
    /\ UNCHANGED <<notStage, modules, concurrency, isBruteStep, mpc, next, semaphore,
                   timer, done, wg, waiter, completed, allResults, errors, ret,
                   retErr, pcAtFire, timerAtReturn>>

\* "defer func() { <-semaphore }()": the token is given back.
Release(i) ==
    /\ wpc[i] = "release"
    /\ semaphore' = semaphore - 1
    /\ wpc' = [wpc EXCEPT ![i] = IF outcome[i] = "panic" THEN "recover" ELSE "wgdone"]
    /\ UNCHANGED <<notStage, modules, concurrency, isBruteStep, mpc, next, outcome, timer,
                   done, wg, waiter, completed, allResults, errors, ret, retErr,
                   pcAtFire, timerAtReturn>>

\* The deferred recover(): the panic becomes an entry of errors.
Recover(i) ==
    /\ wpc[i] = "recover"
    /\ errors' = Append(errors, i)
    /\ wpc' = [wpc EXCEPT ![i] = "wgdone"]
    /\ UNCHANGED <<notStage, modules, concurrency, isBruteStep, mpc, next, outcome,
                   semaphore, timer, done, wg, waiter, completed, allResults,
                   ret, retErr, pcAtFire, timerAtReturn>>

\* "defer wg.Done()"
WgDone(i) ==
    /\ wpc[i] = "wgdone"
    /\ wg' = wg - 1
    /\ wpc' = [wpc EXCEPT ![i] = "done"]
    /\ UNCHANGED <<notStage, modules, concurrency, isBruteStep, mpc, next, outcome,
                   semaphore, timer, done, waiter, completed, allResults, errors,
                   ret, retErr, pcAtFire, timerAtReturn>>

\* wg.Wait() returns and completed <- true is sent.
WaitDone ==
    /\ waiter = "waiting"
    /\ wg = 0
    /\ waiter' = "sent"
    /\ completed' = completed + 1
    /\ UNCHANGED <<notStage, modules, concurrency, isBruteStep, mpc, next, wpc, outcome,
                   semaphore, timer, done, wg, allResults, errors, ret, retErr,
                   pcAtFire, timerAtReturn>>

\* "case <-completed" (or the plain receive of the brute step).
MainCompleted ==
    /\ mpc = "wait"
    /\ completed > 0
    /\ completed' = completed - 1
    /\ Return(allResults)
    /\ UNCHANGED <<notStage, modules, concurrency, isBruteStep, next, wpc, outcome,
                   semaphore, timer, done, wg, waiter, allResults, errors,
                   pcAtFire>>

\* "case <-done" of the caller: it returns what allResults holds now.
MainTimeout ==
    /\ mpc = "wait"
    /\ TimeoutApplies(isBruteStep)
    /\ done > 0
    /\ done' = done - 1
    /\ Return(allResults)
    /\ UNCHANGED <<notStage, modules, concurrency, isBruteStep, next, wpc, outcome,
                   semaphore, timer, wg, waiter, completed, allResults, errors,
                   pcAtFire>>

\* =================================================== validator.go
\* ------------------------------------------------------------------ strings
\* A string is the sequence of its characters.
Alphabet == {"a", "b", "A", "B", " "}

\* strings.ToLower, character by character.
LowerChar(c) == CASE c = "A" -> "a" [] c = "B" -> "b" [] OTHER -> c

ToLower(str) == [k \in DOMAIN str |-> LowerChar(str[k])]

\* strings.TrimSpace: leading and trailing white space removed.
RECURSIVE TrimLeft(_)
TrimLeft(str) ==
    IF Len(str) > 0 /\ Head(str) = " " THEN TrimLeft(Tail(str)) ELSE str

RECURSIVE TrimRight(_)
TrimRight(str) ==
    IF Len(str) > 0 /\ str[Len(str)] = " "
        THEN TrimRight(SubSeq(str, 1, Len(str) - 1))
        ELSE str

TrimSpace(str) == TrimRight(TrimLeft(str))

\* normalized := strings.ToLower(strings.TrimSpace(domain))
Normalize(str) == ToLower(TrimSpace(str))

\* deduplicateDomains: the loop over domains with the map seen and the slice
\* unique.
RECURSIVE DedupLoop(_, _, _)
DedupLoop(list, seen, unique) ==
    IF list = <<>>
        THEN unique
        ELSE LET normalized == Normalize(Head(list))
             IN  IF normalized # <<>> /\ normalized \notin seen
                     THEN DedupLoop(Tail(list), seen \cup {normalized},
                                    Append(unique, normalized))
                     ELSE DedupLoop(Tail(list), seen, unique)

RECURSIVE DedupLoopNoSeen(_, _, _)
DedupLoopNoSeen(list, seen, unique) ==
    IF list = <<>>
        THEN unique
        ELSE LET normalized == Normalize(Head(list))
             IN  IF normalized # <<>>
                     THEN DedupLoopNoSeen(Tail(list), seen, Append(unique, normalized))
                     ELSE DedupLoopNoSeen(Tail(list), seen, unique)

deduplicateDomainsNoSeen(list) == DedupLoopNoSeen(list, {}, <<>>)

deduplicateDomainsDropFirst(list) ==
    LET unique == DedupLoop(list, {}, <<>>)
    IN  IF unique = <<>> THEN unique ELSE Tail(unique)

deduplicateDomains(list) == DedupLoop(list, {}, <<>>)

\* ------------------------------------------------------------------ network
\* An address net.LookupHost returns: an IPv4 address by its four bytes, or an
\* IPv6 address (To4() is nil).
Addr(a, b, c, d) == [v4 |-> TRUE, bytes |-> <<a, b, c, d>>]

AddrV6 == [v4 |-> FALSE, bytes |-> <<>>]

\* isPrivateIP
isPrivateIP(ip) ==
    IF ip.v4
        THEN \/ ip.bytes[1] = 10
             \/ (ip.bytes[1] = 172 /\ ip.bytes[2] >= 16 /\ ip.bytes[2] <= 31)
             \/ (ip.bytes[1] = 192 /\ ip.bytes[2] = 168)
        ELSE FALSE

\* The answers of net.LookupHost the model draws from: an error, or addresses.
Lookups ==
    { [err |-> TRUE,  addrs |-> <<>>],
      [err |-> FALSE, addrs |-> <<Addr(8, 8, 8, 8)>>],
      [err |-> FALSE, addrs |-> <<Addr(10, 0, 0, 1)>>],
      [err |-> FALSE, addrs |-> <<Addr(192, 168, 1, 1), Addr(172, 32, 0, 1)>>],
      [err |-> FALSE, addrs |-> <<Addr(172, 16, 0, 1), AddrV6>>] }

RECURSIVE FilterAddrs(_, _)
FilterAddrs(addrs, exclude) ==
    IF addrs = <<>>
        THEN <<>>
        ELSE IF ~exclude \/ ~isPrivateIP(Head(addrs))
                 THEN <<Head(addrs)>> \o FilterAddrs(Tail(addrs), exclude)
                 ELSE FilterAddrs(Tail(addrs), exclude)

\* resolveDomain: no address on a lookup error, else the addresses that are not
\* excluded as private.
resolveDomain(lookup, exclude) ==
    IF lookup.err THEN <<>> ELSE FilterAddrs(lookup.addrs, exclude)

\* validatePing: a TCP connection to port 80, then to port 443 when that failed.
\* A probe answers "ok" or "fail"; "unprobed" is a connection never attempted.
validatePingBoth(tcp80, tcp443) == tcp80 = "ok" /\ tcp443 = "ok"
validatePing(tcp80, tcp443) ==
    IF tcp80 # "ok" THEN (IF tcp443 # "ok" THEN FALSE ELSE TRUE) ELSE TRUE

\* getIPProvider: the first provider of the list always answers.
getIPProvider(ip) == "IPInfo"

\* validateSingleDomain, given what the network answers.
validateSingleDomain(domain, lookup, tcp80, tcp443, exclude) ==
    LET ips == resolveDomain(lookup, exclude)
    IN  IF Len(ips) > 0
            THEN IF validatePing(tcp80, tcp443)
                     THEN [Subdomain |-> domain, IP |-> ips, Alive |-> TRUE,
                           Provider |-> getIPProvider(ips[1]),
                           DNSResolved |-> TRUE, PingAlive |-> TRUE,
                           StatusCode |-> 200, StatusText |-> "Alive"]
                     ELSE [Subdomain |-> domain, IP |-> ips, Alive |-> FALSE,
                           Provider |-> "",
                           DNSResolved |-> TRUE, PingAlive |-> FALSE,
                           StatusCode |-> 0, StatusText |-> "Ping Failed"]
            ELSE [Subdomain |-> domain, IP |-> <<>>, Alive |-> FALSE,
                  Provider |-> "",
                  DNSResolved |-> FALSE, PingAlive |-> FALSE,
                  StatusCode |-> -1, StatusText |-> "DNS Resolution Failed"]

\* ------------------------------------------------------------ ValidateDomains
\* Largest number of candidates handed to one ValidateDomains call.
MaxDomains == 3

\* The candidate strings the model draws from: plain, upper-case, padded, blank.
CandidatePool == {<<"a">>, <<"A", " ">>, <<" ", "b">>, <<" ">>}

Workers == 1..MaxDomains

NoProbe ==
    [lookup |-> [err |-> TRUE, addrs |-> <<>>], tcp80 |-> "unprobed",
     tcp443 |-> "unprobed"]

\* What the network can answer to one validateSingleDomain call: the lookup,
\* and the answers of the connections the call goes on to attempt.
NetworkAnswersOf(lookups, exclude) ==
    {a \in [lookup : lookups, tcp80 : {"ok", "fail", "unprobed"},
                              tcp443 : {"ok", "fail", "unprobed"}] :
        /\ (a.tcp80 = "unprobed") <=> (resolveDomain(a.lookup, exclude) = <<>>)
        /\ (a.tcp443 = "unprobed") <=> (a.tcp80 # "fail")}

NetworkAnswers(exclude) == NetworkAnswersOf(Lookups, exclude)

\* No ValidateDomains call is in progress.
ValidateIdle ==
    /\ domains = <<>>
    /\ vConcurrency = 0
    /\ excludePrivateIP = FALSE
    /\ vpc = "idle"
    /\ uniqueDomains = <<>>
    /\ vNext = 1
    /\ vwpc = [w \in Workers |-> "idle"]
    /\ vSemaphore = 0
    /\ vWg = 0
    /\ results = <<>>
    /\ vRet = <<>>
    /\ probe = [w \in Workers |-> NoProbe]

ValidateInit ==
    /\ domains \in UNION {[1..n -> CandidatePool] : n \in 0..MaxDomains}
    /\ vConcurrency \in 0..MaxConcurrency
    /\ excludePrivateIP \in BOOLEAN
    /\ vpc = "entry"
    /\ uniqueDomains = <<>>
    /\ vNext = 1
    /\ vwpc = [w \in Workers |-> "idle"]
    /\ vSemaphore = 0
    /\ vWg = 0
    /\ results = <<>>
    /\ vRet = <<>>
    /\ probe = [w \in Workers |-> NoProbe]

\* Entry: the empty-list early return, else deduplication and the semaphore.
ValidateEnter ==
    /\ vpc = "entry"
    /\ IF Len(domains) = 0
          THEN /\ vpc' = "returned"
               /\ vRet' = <<>>
               /\ UNCHANGED uniqueDomains
          ELSE /\ vpc' = "launch"
               /\ uniqueDomains' = deduplicateDomains(domains)
               /\ UNCHANGED vRet
    /\ UNCHANGED <<notValidate, domains, vConcurrency, excludePrivateIP, vNext,
                   vwpc, vSemaphore, vWg, results, probe>>

\* One iteration of "for _, domain := range uniqueDomains": wg.Add(1) and the
\* goroutine of that domain.
ValidateLaunch ==
    /\ vpc = "launch"
    /\ vNext <= Len(uniqueDomains)
    /\ vWg' = vWg + 1
    /\ vwpc' = [vwpc EXCEPT ![vNext] = "acquire"]
    /\ vNext' = vNext + 1
    /\ UNCHANGED <<notValidate, domains, vConcurrency, excludePrivateIP, vpc,
                   uniqueDomains, vSemaphore, results, vRet, probe>>

\* After the loop the caller blocks in wg.Wait().
ValidateStartWait ==
    /\ vpc = "launch"
    /\ vNext > Len(uniqueDomains)
    /\ vpc' = "wait"
    /\ UNCHANGED <<notValidate, domains, vConcurrency, excludePrivateIP,
                   uniqueDomains, vNext, vwpc, vSemaphore, vWg, results, vRet,
                   probe>>

\* "semaphore <- struct{}{}"
ValidateAcquire(w) ==
    /\ vwpc[w] = "acquire"
    /\ CanAcquire(vSemaphore, vConcurrency)
    /\ vSemaphore' = vSemaphore + 1
    /\ vwpc' = [vwpc EXCEPT ![w] = "validate"]
    /\ UNCHANGED <<notValidate, domains, vConcurrency, excludePrivateIP, vpc,
                   uniqueDomains, vNext, vWg, results, vRet, probe>>

\* validateSingleDomain returns and its result is appended under the mutex.
ValidateSingle(w) ==
    /\ vwpc[w] = "validate"
    /\ \E a \in NetworkAnswers(excludePrivateIP) :
          /\ results' = Append(results,
                 validateSingleDomain(uniqueDomains[w], a.lookup, a.tcp80,
                                      a.tcp443, excludePrivateIP))
          /\ probe' = [probe EXCEPT ![w] = a]
    /\ vwpc' = [vwpc EXCEPT ![w] = "release"]
    /\ UNCHANGED <<notValidate, domains, vConcurrency, excludePrivateIP, vpc,
                   uniqueDomains, vNext, vSemaphore, vWg, vRet>>

\* "defer func() { <-semaphore }()"
ValidateRelease(w) ==
    /\ vwpc[w] = "release"
    /\ vSemaphore' = vSemaphore - 1
    /\ vwpc' = [vwpc EXCEPT ![w] = "wgdone"]
    /\ UNCHANGED <<notValidate, domains, vConcurrency, excludePrivateIP, vpc,
                   uniqueDomains, vNext, vWg, results, vRet, probe>>

\* "defer wg.Done()"
ValidateWgDone(w) ==
    /\ vwpc[w] = "wgdone"
    /\ vWg' = vWg - 1
    /\ vwpc' = [vwpc EXCEPT ![w] = "done"]
    /\ UNCHANGED <<notValidate, domains, vConcurrency, excludePrivateIP, vpc,
                   uniqueDomains, vNext, vSemaphore, results, vRet, probe>>

\* wg.Wait() returns and ValidateDomains returns results.
ValidateReturn ==
    /\ vpc = "wait"
    /\ vWg = 0
    /\ vpc' = "returned"
    /\ vRet' = results
    /\ UNCHANGED <<notValidate, domains, vConcurrency, excludePrivateIP,
                   uniqueDomains, vNext, vwpc, vSemaphore, vWg, results, probe>>

ValidateNext ==
    \/ ValidateEnter
    \/ ValidateLaunch
    \/ ValidateStartWait
    \/ \E w \in Workers : ValidateAcquire(w)
    \/ \E w \in Workers : ValidateSingle(w)
    \/ \E w \in Workers : ValidateRelease(w)
    \/ \E w \in Workers : ValidateWgDone(w)
    \/ ValidateReturn

\* No runModulesWithConcurrency call is in progress.
StageIdle ==
    /\ modules = <<>>
    /\ concurrency = 0
    /\ isBruteStep = FALSE
    /\ mpc = "idle"
    /\ next = 1
    /\ wpc = [i \in Modules |-> "idle"]
    /\ outcome = [i \in Modules |-> "none"]
    /\ semaphore = 0
    /\ timer = "none"
    /\ done = 0
    /\ wg = 0
    /\ waiter = "none"
    /\ completed = 0
    /\ allResults = <<>>
    /\ errors = <<>>
    /\ ret = <<>>
    /\ retErr = "-"
    /\ pcAtFire = [i \in Modules |-> "-"]
    /\ timerAtReturn = "-"


\* =================================================== dispatcher.go: the run
\* Largest number of RegisterModule calls before the run.
MaxRegistered == 2

\* initExecutionSteps: the step names in declaration order.
executionStepsBruteFirst ==
    <<"Fast Search", "Dataset", "Certificate", "Crawl", "DNS Lookup",
      "Brute Force", "Intelligence", "File Check", "Enrich", "Validation">>
executionSteps ==
    <<"Fast Search", "Dataset", "Certificate", "Crawl", "DNS Lookup",
      "Intelligence", "Brute Force", "File Check", "Enrich", "Validation">>

\* The name lists of isSearchModule, isDatasetModule, ... (containsInSlice).
isSearchModule(name) ==
    name \in {"GoogleSearch", "BingSearch", "BaiduSearch", "YahooSearch",
              "SogouSearch", "YandexSearch", "SoSearch", "AskSearch",
              "GithubAPISearch", "GiteeSearch", "FoFaAPISearch",
              "ShodanAPISearch", "ZoomEyeAPISearch", "QuakeAPISearch",
              "HunterAPISearch", "BingAPISearch", "GoogleAPISearch",
              "DNSDumpsterQuery", "SecurityTrailsAPIQuery", "AnubisQuery",
              "BeVigilOsintApi", "BinaryEdgeAPIQuery", "ChinazQuery",
              "ChinazAPIQuery", "CirclAPIQuery", "CloudFlareAPIQuery",
              "DNSdbAPIQuery", "DnsgrepQuery", "FullHuntAPIQuery",
              "HackerTargetQuery", "IP138Query", "IPv4InfoAPIQuery",
              "NetCraftQuery", "PassiveDnsQuery", "QianXunQuery",
              "RapidDNSQuery", "RiddlerQuery", "RobtexQuery",
              "SiteDossierQuery", "SpyseAPIQuery", "Sublist3rQuery",
              "UrlscanQuery", "CensysAPIQuery", "CertSpotterQuery",
              "CrtshQuery", "GoogleQuery", "MySSLQuery", "RacentQuery",
              "AXFRCheck", "CrossDomainCheck", "CertInfo", "CSPCheck",
              "NSECCheck", "RobotsCheck", "SitemapCheck", "ArchiveCrawl",
              "CommonCrawl", "NSQuery", "QueryMX", "QuerySOA", "QuerySPF",
              "QueryTXT", "AlienVaultQuery", "RiskIQAPIQuery",
              "ThreatBookAPIQuery", "ThreatMinerQuery", "VirusTotalQuery",
              "VirusTotalAPIQuery"}

isDatasetModule(name) ==
    name \in {"AnubisQuery", "BeVigilOsintApi", "BinaryEdgeAPIQuery",
              "CebaiduQuery", "ChinazQuery", "CirclAPIQuery",
              "CloudFlareAPIQuery", "DNSdbAPIQuery", "DNSDumpsterQuery",
              "DnsgrepQuery", "FullHuntAPIQuery", "HackerTargetQuery",
              "IP138Query", "IPv4InfoAPIQuery", "NetCraftQuery",
              "PassiveDnsQuery", "QianXunQuery", "RapidDNSQuery",
              "RiddlerQuery", "RobtexQuery", "SecurityTrailsAPIQuery",
              "SiteDossierQuery", "SpyseAPIQuery", "Sublist3rQuery",
              "UrlscanQuery"}

isCertificateModule(name) ==
    name \in {"CensysAPIQuery", "CertSpotterQuery", "CrtshQuery", "GoogleQuery",
              "MySSLQuery", "RacentQuery"}

isCrawlModule(name) == name \in {"ArchiveCrawl", "CommonCrawl"}

isDNSLookupModule(name) ==
    name \in {"NSQuery", "QueryMX", "QuerySOA", "QuerySPF", "QueryTXT"}

isCheckModule(name) ==
    name \in {"AXFRCheck", "CrossDomainCheck", "CertInfo", "CSPCheck",
              "NSECCheck", "RobotsCheck", "SitemapCheck"}

isIntelligenceModule(name) ==
    name \in {"AlienVaultQuery", "RiskIQAPIQuery", "ThreatBookAPIQuery",
              "ThreatMinerQuery", "VirusTotalQuery", "VirusTotalAPIQuery"}

isBruteModule(name) == name \in {"Brute", "Alt"}

isEnrichModule(name) == name \in {"enrich"}

\* getModuleType: the first name list that holds the name decides.
getModuleType(name) ==
    IF isSearchModule(name) THEN "search"
    ELSE IF isDatasetModule(name) THEN "enrich"
    ELSE IF isCertificateModule(name) THEN "enrich"
    ELSE IF isCrawlModule(name) THEN "crawl"
    ELSE IF isDNSLookupModule(name) THEN "dns_lookup"
    ELSE IF isCheckModule(name) THEN "check"
    ELSE IF isIntelligenceModule(name) THEN "enrich"
    ELSE IF isBruteModule(name) THEN "brute"
    ELSE IF isEnrichModule(name) THEN "enrich"
    ELSE "search"

\* getModuleTypeForStep
getModuleTypeForStep(stepName) ==
    CASE stepName = "Fast Search" -> "search"
      [] stepName = "Dataset" -> "enrich"
      [] stepName = "Certificate" -> "enrich"
      [] stepName = "Crawl" -> "crawl"
      [] stepName = "DNS Lookup" -> "dns_lookup"
      [] stepName = "File Check" -> "check"
      [] stepName = "Intelligence" -> "enrich"
      [] stepName = "Brute Force" -> "brute"
      [] stepName = "Enrich" -> "enrich"
      [] stepName = "Validation" -> "enrich"
      [] OTHER -> "search"

\* The field of the Dispatcher RegisterModule appends the module to.
RegisterField(name) ==
    LET moduleType == getModuleType(name)
    IN  CASE moduleType = "search" -> "searchModules"
          [] moduleType = "brute" -> "bruteModules"
          [] moduleType = "dns_lookup" -> "dnsLookupModules"
          [] moduleType = "check" -> "checkModules"
          [] moduleType = "crawl" -> "crawlModules"
          [] moduleType = "enrich" ->
                IF isDatasetModule(name) THEN "datasetModules"
                ELSE IF isCertificateModule(name) THEN "certificateModules"
                ELSE IF isIntelligenceModule(name) THEN "intelligenceModules"
                ELSE "enrichModules"

Fields == {"searchModules", "bruteModules", "dnsLookupModules", "checkModules",
           "crawlModules", "enrichModules", "datasetModules",
           "certificateModules", "intelligenceModules"}

\* allModules of getDatasetModules, getCertificateModules, getIntelligenceModules
allModules(reg) ==
    reg.searchModules \o reg.bruteModules \o reg.dnsLookupModules
        \o reg.enrichModules

getDatasetModules(reg) == SelectSeq(allModules(reg), isDatasetModule)

getCertificateModules(reg) == SelectSeq(allModules(reg), isCertificateModule)

getIntelligenceModules(reg) == SelectSeq(allModules(reg), isIntelligenceModule)

\* getModulesForStep(stepName, false)
getModulesForStep(reg, stepName) ==
    CASE stepName = "Fast Search" -> reg.searchModules
      [] stepName = "Dataset" -> getDatasetModules(reg)
      [] stepName = "Certificate" -> getCertificateModules(reg)
      [] stepName = "Crawl" -> reg.crawlModules
      [] stepName = "DNS Lookup" -> reg.dnsLookupModules
      [] stepName = "File Check" -> reg.checkModules
      [] stepName = "Intelligence" -> getIntelligenceModules(reg)
      [] stepName = "Brute Force" -> reg.bruteModules
      [] stepName = "Enrich" -> reg.enrichModules
      [] stepName = "Validation" -> <<>>
      [] OTHER -> <<>>

\* The collector names the model registers: a search engine, a dataset, a
\* certificate and an intelligence source, the brute-force and the enrich
\* module.
ModuleNames == {"GoogleSearch", "AnubisQuery", "CrtshQuery", "VirusTotalQuery",
                "Brute", "enrich"}

\* The lists a collector's Run can return: a normalized candidate, or one in
\* upper case with trailing white space.
CollectorOutputs == {<<<<"a">>>>, <<<<"A", " ">>>>}

\* The lists a runModulesWithConcurrency call over n collectors can return:
\* the outputs of some of them (the others failed, were disabled, or were cut by
\* the timeout), appended in the order the goroutines finished.
RECURSIVE StageReturns(_)
StageReturns(n) ==
    IF n = 0
        THEN {<<>>}
        ELSE LET rest == StageReturns(n - 1)
             IN  rest \cup {l \o out : l \in rest, out \in CollectorOutputs}
                      \cup {out \o l : l \in rest, out \in CollectorOutputs}

\* The lookup answers the run draws from: an error, or one public address.
RunLookups == {l \in Lookups : l.err \/ l.addrs = <<Addr(8, 8, 8, 8)>>}

\* The slices ValidateDomains can return for a candidate list: one result per
\* unique domain, in the order of uniqueDomains.
RECURSIVE ValidationReturns(_, _)
ValidationReturns(unique, exclude) ==
    IF unique = <<>>
        THEN {<<>>}
        ELSE {<<validateSingleDomain(Head(unique), a.lookup, a.tcp80, a.tcp443,
                                     exclude)>> \o rest :
                 a \in NetworkAnswersOf(RunLookups, exclude),
                 rest \in ValidationReturns(Tail(unique), exclude)}

\* Whether ValidateDomains runs after the collection steps.
ShouldValidate(enabled, all) == enabled /\ Len(all) > 0

\* The update of one stage's list after validation: the subdomains for which a
\* validation result with the same Subdomain exists.
RECURSIVE validatedResults(_, _)
validatedResults(list, vresults) ==
    IF list = <<>>
        THEN <<>>
        ELSE IF \E k \in DOMAIN vresults : vresults[k].Subdomain = Head(list)
                 THEN <<Head(list)>> \o validatedResults(Tail(list), vresults)
                 ELSE validatedResults(Tail(list), vresults)

EmptyRegistry == [f \in Fields |-> <<>>]

Registered(reg) ==
    Len(reg.searchModules) + Len(reg.bruteModules) + Len(reg.dnsLookupModules)
        + Len(reg.checkModules) + Len(reg.crawlModules) + Len(reg.enrichModules)
        + Len(reg.datasetModules) + Len(reg.certificateModules)
        + Len(reg.intelligenceModules)

\* The step configurations the model draws from: every step enabled, or one
\* step disabled.
StepConfigs ==
    {[k \in DOMAIN executionSteps |-> TRUE]}
        \cup {[k \in DOMAIN executionSteps |-> k # off] : off \in DOMAIN executionSteps}

\* No run of the Dispatcher is in progress.
RunIdle ==
    /\ registry = EmptyRegistry
    /\ stepEnabled = [k \in DOMAIN executionSteps |-> TRUE]
    /\ enableDomainValidation = FALSE
    /\ validationConcurrency = 0
    /\ rpc = "idle"
    /\ stepIdx = 1
    /\ stageResults = <<>>
    /\ allSubdomains = <<>>
    /\ validationResults = <<>>
    /\ calls = <<>>
    /\ collected = <<>>
    /\ validatorCalls = 0
    /\ validatorArg = <<>>
    /\ resultsBefore = <<>>

\* NewDispatcher: no module registered, the steps as configured.
RunInit ==
    /\ registry = EmptyRegistry
    /\ stepEnabled \in StepConfigs
    /\ enableDomainValidation \in BOOLEAN
    /\ validationConcurrency \in 0..1
    /\ rpc = "setup"
    /\ stepIdx = 1
    /\ stageResults = <<>>
    /\ allSubdomains = <<>>
    /\ validationResults = <<>>
    /\ calls = <<>>
    /\ collected = <<>>
    /\ validatorCalls = 0
    /\ validatorArg = <<>>
    /\ resultsBefore = <<>>

\* RegisterModule(module)
RegisterModule(name) ==
    /\ rpc = "setup"
    /\ Registered(registry) < MaxRegistered
    /\ registry' = [registry EXCEPT ![RegisterField(name)] = Append(@, name)]
    /\ UNCHANGED <<notRun, stepEnabled, enableDomainValidation,
                   validationConcurrency, rpc, stepIdx, stageResults,
                   allSubdomains, validationResults, calls, collected,
                   validatorCalls, validatorArg, resultsBefore>>

\* RunAllModules(domain) is called.
RunAllModules ==
    /\ rpc = "setup"
    /\ rpc' = "loop"
    /\ UNCHANGED <<notRun, registry, stepEnabled, enableDomainValidation,
                   validationConcurrency, stepIdx, stageResults, allSubdomains,
                   validationResults, calls, collected, validatorCalls,
                   validatorArg, resultsBefore>>

\* The three "continue" of the loop: the Validation step, a disabled step, a
\* step without modules.
StepIsSkipped(k) ==
    \/ executionSteps[k] = "Validation"
    \/ ~stepEnabled[k]
    \/ Len(getModulesForStep(registry, executionSteps[k])) = 0

StepSkip ==
    /\ rpc = "loop"
    /\ stepIdx <= Len(executionSteps)
    /\ StepIsSkipped(stepIdx)
    /\ stepIdx' = stepIdx + 1
    /\ UNCHANGED <<notRun, registry, stepEnabled, enableDomainValidation,
                   validationConcurrency, rpc, stageResults, allSubdomains,
                   validationResults, calls, collected, validatorCalls,
                   validatorArg, resultsBefore>>

\* d.runModulesWithConcurrency(stepModules, ...) is called.
StageCall ==
    /\ rpc = "loop"
    /\ stepIdx <= Len(executionSteps)
    /\ ~StepIsSkipped(stepIdx)
    /\ rpc' = "calling"
    /\ calls' = Append(calls, executionSteps[stepIdx])
    /\ UNCHANGED <<notRun, registry, stepEnabled, enableDomainValidation,
                   validationConcurrency, stepIdx, stageResults, allSubdomains,
                   validationResults, collected, validatorCalls, validatorArg,
                   resultsBefore>>

\* The stage call returns: results[stepType] = stepResults and the list is
\* appended to allSubdomains.
StageReturn ==
    /\ rpc = "calling"
    /\ \E stepResults \in
            StageReturns(Len(getModulesForStep(registry, executionSteps[stepIdx]))) :
          LET stepType == getModuleTypeForStep(executionSteps[stepIdx])
          IN  /\ stageResults' =
                    [t \in DOMAIN stageResults \cup {stepType} |->
                        IF t = stepType THEN stepResults ELSE stageResults[t]]
              /\ allSubdomains' = allSubdomains \o stepResults
              /\ collected' = Append(collected, stepResults)
    /\ rpc' = "loop"
    /\ stepIdx' = stepIdx + 1
    /\ UNCHANGED <<notRun, registry, stepEnabled, enableDomainValidation,
                   validationConcurrency, validationResults, calls,
                   validatorCalls, validatorArg, resultsBefore>>

\* After the loop: ValidateDomains is called, or the run returns at once.
LoopEnd ==
    /\ rpc = "loop"
    /\ stepIdx > Len(executionSteps)
    /\ IF ShouldValidate(enableDomainValidation, allSubdomains)
          THEN /\ rpc' = "validating"
               /\ validatorCalls' = validatorCalls + 1
               /\ validatorArg' = allSubdomains
               /\ resultsBefore' = stageResults
          ELSE /\ rpc' = "returned"
               /\ UNCHANGED <<validatorCalls, validatorArg, resultsBefore>>
    /\ UNCHANGED <<notRun, registry, stepEnabled, enableDomainValidation,
                   validationConcurrency, stepIdx, stageResults, allSubdomains,
                   validationResults, calls, collected>>

\* ValidateDomains returns (with a semaphore of capacity 0 it returns only when
\* no goroutine was started); the per-stage lists and allSubdomains are
\* rewritten and RunAllModules returns.
ValidationReturn ==
    /\ rpc = "validating"
    /\ validationConcurrency >= 1 \/ deduplicateDomains(allSubdomains) = <<>>
    /\ \E vr \in ValidationReturns(deduplicateDomains(allSubdomains), TRUE) :
          /\ validationResults' = vr
          /\ stageResults' = [t \in DOMAIN stageResults |->
                                 validatedResults(stageResults[t], vr)]
          /\ allSubdomains' = [k \in DOMAIN vr |-> vr[k].Subdomain]
    /\ rpc' = "returned"
    /\ UNCHANGED <<notRun, registry, stepEnabled, enableDomainValidation,
                   validationConcurrency, stepIdx, calls, collected,
                   validatorCalls, validatorArg, resultsBefore>>

RunNext ==
    \/ \E name \in ModuleNames : RegisterModule(name)
    \/ RunAllModules
    \/ StepSkip
    \/ StageCall
    \/ StageReturn
    \/ LoopEnd
    \/ ValidationReturn

\* ------------------------------------------------- RunLib (dispatcher.go)
\* The library call on the same Dispatcher: the options, the loop over the
\* steps, one SubdomainResult per string of each stage's list, then the
\* validation, which fills in the results with a matching Subdomain.

\* The target domain of the call.
LibDomain == <<"b">>

\* The lists one collector can return for LibDomain: a subdomain, the same
\* in upper case, and a subdomain with a name of another zone (the reverse
\* names of Enrich.Run are of this kind).
LibCollectorOutputs ==
    { << <<"a", ".", "b">> >>,
      << <<"A", ".", "b">> >>,
      << <<"a", ".", "b">>, <<"a", ".", "c">> >> }

\* The lists a runModulesWithConcurrency call over n collectors can return
\* (see StageReturns).  With concurrency 0 no collector gets a token: a
\* stage with a timeout returns the empty list and the brute stage never
\* returns.
RECURSIVE LibStageLists(_)
LibStageLists(n) ==
    IF n = 0
        THEN {<<>>}
        ELSE LET rest == LibStageLists(n - 1)
             IN  rest \cup {l \o out : l \in rest, out \in LibCollectorOutputs}
                      \cup {out \o l : l \in rest, out \in LibCollectorOutputs}

LibStageReturns(n, conc, isBrute) ==
    IF conc >= 1 THEN LibStageLists(n)
    ELSE IF isBrute THEN {}
    ELSE {<<>>}

LibOptions ==
    [enable_validation : BOOLEAN, enable_brute_force : BOOLEAN,
     concurrency : 0..1]

\* SubdomainResult of a collected string, before validation.
NewSubdomainResult(subdomain, stepType) ==
    [Subdomain |-> subdomain, Source |-> stepType, Alive |-> FALSE,
     IP |-> <<>>, DNSResolved |-> FALSE, PingAlive |-> FALSE,
     StatusCode |-> 0, StatusText |-> "", Provider |-> ""]

\* The inner loop of the update: the first validation result with the same
\* Subdomain is copied into the result.
UpdateResult(result, vresults) ==
    LET hits == {k \in DOMAIN vresults :
                    vresults[k].Subdomain = result.Subdomain}
    IN  IF hits = {} THEN result
        ELSE LET v == vresults[CHOOSE k \in hits : \A j \in hits : k <= j]
             IN  [result EXCEPT !.IP = v.IP, !.Alive = v.Alive,
                                !.DNSResolved = v.DNSResolved,
                                !.PingAlive = v.PingAlive,
                                !.StatusCode = v.StatusCode,
                                !.StatusText = v.StatusText,
                                !.Provider = v.Provider]

LibStepIsSkipped(k) ==
    \/ executionSteps[k] = "Validation"
    \/ executionSteps[k] = "Brute Force" /\ ~libOptions.enable_brute_force
    \/ ~stepEnabled[k]
    \/ Len(getModulesForStep(registry, executionSteps[k])) = 0

LibIdle ==
    /\ libOptions = [enable_validation |-> FALSE,
                     enable_brute_force |-> FALSE, concurrency |-> 0]
    /\ libResults = <<>>

LibInit ==
    /\ registry = EmptyRegistry
    /\ stepEnabled = [k \in DOMAIN executionSteps |-> TRUE]
    /\ enableDomainValidation = FALSE
    /\ validationConcurrency = 0
    /\ rpc = "setup"
    /\ stepIdx = 1
    /\ stageResults = <<>>
    /\ allSubdomains = <<>>
    /\ validationResults = <<>>
    /\ calls = <<>>
    /\ collected = <<>>
    /\ validatorCalls = 0
    /\ validatorArg = <<>>
    /\ resultsBefore = <<>>
    /\ libOptions \in LibOptions
    /\ libResults = <<>>

LibConfig == <<registry, stepEnabled, enableDomainValidation,
               validationConcurrency, stageResults, resultsBefore, libOptions>>

\* RunLib(domain, options) is called.
RunLib ==
    /\ rpc = "setup"
    /\ rpc' = "libloop"
    /\ UNCHANGED <<LibConfig, stepIdx, allSubdomains, validationResults, calls,
                   collected, validatorCalls, validatorArg, libResults,
                   stageVars, validateVars, bruteVars, postVars, dedupVars, apiVars>>

LibStepSkip ==
    /\ rpc = "libloop"
    /\ stepIdx <= Len(executionSteps)
    /\ LibStepIsSkipped(stepIdx)
    /\ stepIdx' = stepIdx + 1
    /\ UNCHANGED <<LibConfig, rpc, allSubdomains, validationResults, calls,
                   collected, validatorCalls, validatorArg, libResults,
                   stageVars, validateVars, bruteVars, postVars, dedupVars, apiVars>>

LibStageCall ==
    /\ rpc = "libloop"
    /\ stepIdx <= Len(executionSteps)
    /\ ~LibStepIsSkipped(stepIdx)
    /\ rpc' = "libcalling"
    /\ calls' = Append(calls, executionSteps[stepIdx])
    /\ UNCHANGED <<LibConfig, stepIdx, allSubdomains, validationResults,
                   collected, validatorCalls, validatorArg, libResults,
                   stageVars, validateVars, bruteVars, postVars, dedupVars, apiVars>>

\* The stage call returns: one SubdomainResult per string, and the strings
\* appended to allSubdomains.
LibStageReturn ==
    /\ rpc = "libcalling"
    /\ LET stepName == executionSteps[stepIdx]
           stepType == getModuleTypeForStep(stepName)
       IN  \E stepResults \in
                LibStageReturns(Len(getModulesForStep(registry, stepName)),
                                libOptions.concurrency, stepType = "brute") :
              /\ libResults' = libResults \o
                    [k \in DOMAIN stepResults |->
                        NewSubdomainResult(stepResults[k], stepType)]
              /\ allSubdomains' = allSubdomains \o stepResults
              /\ collected' = Append(collected, stepResults)
    /\ stepIdx' = stepIdx + 1
    /\ rpc' = "libloop"
    /\ UNCHANGED <<LibConfig, validationResults, calls, validatorCalls,
                   validatorArg, stageVars, validateVars, bruteVars, postVars, dedupVars, apiVars>>

LibLoopEnd ==
    /\ rpc = "libloop"
    /\ stepIdx > Len(executionSteps)
    /\ IF libOptions.enable_validation /\ Len(allSubdomains) > 0
          THEN /\ rpc' = "libvalidating"
               /\ validatorCalls' = validatorCalls + 1
               /\ validatorArg' = allSubdomains
          ELSE /\ rpc' = "libreturned"
               /\ UNCHANGED <<validatorCalls, validatorArg>>
    /\ UNCHANGED <<LibConfig, stepIdx, allSubdomains, validationResults, calls,
                   collected, libResults, stageVars, validateVars, bruteVars, postVars, dedupVars, apiVars>>

\* ValidateDomains(allSubdomains, concurrency) returns (it does not with
\* concurrency 0) and the results are updated.
LibValidationReturn ==
    /\ rpc = "libvalidating"
    /\ libOptions.concurrency >= 1
    /\ \E vr \in ValidationReturns(deduplicateDomains(allSubdomains), TRUE) :
          /\ validationResults' = vr
          /\ libResults' = [k \in DOMAIN libResults |->
                               UpdateResult(libResults[k], vr)]
    /\ rpc' = "libreturned"
    /\ UNCHANGED <<LibConfig, stepIdx, allSubdomains, calls, collected,
                   validatorCalls, validatorArg, stageVars, validateVars,
                   bruteVars, postVars, dedupVars, apiVars>>

LibNext ==
    \/ \E name \in ModuleNames : RegisterModule(name)
    \/ RunLib
    \/ LibStepSkip
    \/ LibStageCall
    \/ LibStageReturn
    \/ LibLoopEnd
    \/ LibValidationReturn

\* ------------------------------------------------------- Brute (brute.go)
\* One Brute instance, registered once by main and run for each domain of
\* o.domains in turn.  A string is a sequence of characters; an address is an
\* opaque string.  The DNS is a fixed zone per run: every resolver that is
\* asked gives the zone's answer, and an empty resolver list gives none.

\* TestCount of the WildcardDetectionResult.
TestCount == 20
\* Largest b.concurrent (config BruteForceConcurrency; NewBrute keeps it >= 1).
MaxBruteConcurrent == 2

IP1 == "5.5.5.5"
IP2 == "1.2.3.4"
NSIP == "ns-ip"

DomainA == <<"x">>
DomainB == <<"y">>

\* o.domains of main: the same module instance runs them in this order.
Domains == <<DomainA, DomainB>>

WordW == <<"w">>
WordA == <<"a">>
WordComment == <<"#", "c">>

Repeat(x, n) == [k \in 1..n |-> x]

\* The contents data/subnames.txt can have: the two-word list, a list with
\* blanks, a comment and a duplicate, lists of exactly TestCount lines of
\* which 18, 19 or 20 are the word w, and a list one line longer than
\* TestCount.
WordlistFiles ==
    { <<WordW, WordA>>,
      << <<" ", "w", " ">>, <<>>, WordComment, WordA, WordW, <<" ">> >> }
    \cup { Repeat(WordW, n) \o Repeat(WordA, TestCount - n) : n \in 18..20 }
    \cup { Repeat(WordW, TestCount - 1) \o Repeat(WordA, 2) }

\* The words loadWordlist uses when the file gives none.
DefaultWords ==
    << <<"t", "e", "s", "t">>, <<"w", "w", "w">>,
       <<"m", "a", "i", "l">>, <<"f", "t", "p">>,
       <<"a", "d", "m", "i", "n">>, <<"b", "l", "o", "g">>,
       <<"a", "p", "i">>, <<"d", "e", "v">>,
       <<"s", "t", "a", "g", "e">>, <<"p", "r", "o", "d">>,
       <<"a", "p", "p">>, <<"w", "e", "b">>,
       <<"c", "d", "n">>, <<"s", "t", "a", "t", "i", "c">>,
       <<"i", "m", "g">>, <<"c", "s", "s">>,
       <<"j", "s">>, <<"d", "o", "c", "s">>,
       <<"h", "e", "l", "p">>, <<"s", "u", "p", "p", "o", "r", "t">> >>

\* What os.Open of data/subnames.txt gives: the lines of one of the files, or
\* no file.
WordlistInputs ==
    {[exists |-> TRUE, lines |-> l] : l \in WordlistFiles}
    \cup {[exists |-> FALSE, lines |-> <<>>]}

\* strings.HasPrefix(word, "#")
HasPrefix(word, c) == Len(word) > 0 /\ word[1] = c

TrimLines(lines) == [k \in DOMAIN lines |-> TrimSpace(lines[k])]

\* loadWordlist: every non-blank line, comment lines included.
NonBlank(word) == word # <<>>

loadWordlist(file) ==
    LET words == IF file.exists
                 THEN SelectSeq(TrimLines(file.lines), NonBlank)
                 ELSE <<>>
    IN  IF words = <<>> THEN DefaultWords ELSE words

\* generateDict skips a line that is blank or starts with "#".
IsWordOnlyNonBlank(word) == word # <<>>

IsWord(word) == word # <<>> /\ ~HasPrefix(word, "#")

Hostname(word, domain) == word \o <<".">> \o domain

\* generateDict: the candidates of the wordlist, or no list when the file
\* cannot be opened.
generateDict(file, domain) ==
    LET words == SelectSeq(TrimLines(file.lines), IsWord)
    IN  [k \in DOMAIN words |-> Hostname(words[k], domain)]

\* selectRandomWords: all the words when there are at most count of them,
\* otherwise count of them at distinct random indices.  The selections are
\* taken in index order: the probes only count, so their order is immaterial.
RECURSIVE DropAt(_, _)
DropAt(words, drop) ==
    IF words = <<>> THEN <<>>
    ELSE LET rest == DropAt(SubSeq(words, 1, Len(words) - 1), drop)
         IN  IF Len(words) \in drop THEN rest
             ELSE Append(rest, words[Len(words)])

\* The subsets of S with k elements.
RECURSIVE KSubsets(_, _)
KSubsets(S, k) ==
    IF k = 0 THEN {{}}
    ELSE IF S = {} THEN {}
    ELSE LET x == CHOOSE y \in S : TRUE
         IN  {T \cup {x} : T \in KSubsets(S \ {x}, k - 1)}
             \cup KSubsets(S \ {x}, k)

selectRandomWords(words, count) ==
    IF Len(words) <= count THEN {words}
    ELSE {DropAt(words, drop) :
            drop \in KSubsets(DOMAIN words, Len(words) - count)}

\* generateRandomTestSubdomains
generateRandomTestSubdomains(file, domain, count) ==
    {[k \in DOMAIN sel |-> Hostname(sel[k], domain)] :
        sel \in selectRandomWords(loadWordlist(file), count)}

\* ---- the DNS of one run
\* ns: what the NS query gave (an error, or for each nameserver hostname the
\* A record it has, <<>> for none); rec: the A records of the labels w and a
\* (<<>> for none); wild: the zone's wildcard record (<<>> for none), the
\* answer for every label without a record of its own.
NSAnswers ==
    {[err |-> TRUE, hosts |-> <<>>]}
    \cup {[err |-> FALSE, hosts |-> h] :
            h \in {<<>>, << <<>> >>, << <<>>, <<NSIP>> >>}}

Zones ==
    {[ns |-> n, rec |-> (WordW :> w) @@ (WordA :> a), wild |-> x] :
        n \in NSAnswers,
        w \in {<<>>, <<IP1>>, <<IP1, IP2>>},
        a \in {<<>>, <<IP2>>},
        x \in {<<>>, <<IP1>>}}

NoZone == [ns |-> [err |-> TRUE, hosts |-> <<>>],
           rec |-> (WordW :> <<>>) @@ (WordA :> <<>>), wild |-> <<>>]

LabelOf(name, domain) == SubSeq(name, 1, Len(name) - Len(domain) - 1)

ZoneAnswer(z, label) ==
    IF label \in DOMAIN z.rec /\ z.rec[label] # <<>>
        THEN z.rec[label]
        ELSE z.wild

\* queryA: the resolvers of b.nameservers are asked in turn and the first
\* non-empty answer is returned; no resolver, or no record, is an error,
\* written <<>>.
queryA(resolvers, answer) == IF resolvers = <<>> THEN <<>> ELSE answer

\* querySubdomain: Valid iff queryA gave an address.
querySubdomain(resolvers, z, name, domain) ==
    LET ips == queryA(resolvers, ZoneAnswer(z, LabelOf(name, domain)))
    IN  [Subdomain |-> name, IPs |-> ips, Valid |-> ips # <<>>]

\* isValidSubdomain (CNAMEs are never filled in)
isValidSubdomain(result) == Len(result.IPs) > 0

\* getPublicNameservers when data/nameservers.txt cannot be read.
getPublicNameservers ==
    <<"8.8.8.8", "8.8.4.4", "1.1.1.1", "1.0.0.1",
      "114.114.114.114", "114.114.115.115">>

\* getNameservers: the loop over the NS records; queryA uses b.nameservers
\* as it stands at each iteration.
RECURSIVE NsLoop(_, _)
NsLoop(hosts, resolvers) ==
    IF hosts = <<>> THEN resolvers
    ELSE NsLoop(Tail(hosts), resolvers \o queryA(resolvers, Head(hosts)))

getNameservers(hosts, resolvers) ==
    LET found == NsLoop(hosts, resolvers)
    IN  IF Len(found) = 0 THEN getPublicNameservers ELSE found

\* ---- statistics: a rate is the fraction <<numerator, denominator>> of its
\* percentage; the float64 comparisons with 90.0 and 50.0 agree with the exact
\* ones for every count up to TestCount probes.
RateGT(rate, k) == rate[1] > k * rate[2]

RateGE(rate, k) == rate[1] >= k * rate[2]

RateEq(rate, k) == rate[1] = k * rate[2]

RECURSIVE SumCounts(_, _)
SumCounts(counts, keys) ==
    IF keys = {} THEN 0
    ELSE LET k == CHOOSE x \in keys : TRUE
         IN  counts[k] + SumCounts(counts, keys \ {k})

IPRepeatRateOfZero(total, unique) == <<0, 1>>

IPRepeatRateOf(total, unique) ==
    IF total > 0 THEN <<(total - unique) * 100, total>> ELSE <<0, 1>>

IsWildcardOfLoose(successRate, ipRepeatRate) ==
    RateGE(successRate, 90) /\ RateGE(ipRepeatRate, 50)

IsWildcardOf(successRate, ipRepeatRate) ==
    RateGT(successRate, 90) /\ RateGT(ipRepeatRate, 50)

\* calculateStatistics, then the IsWildcard assignment of
\* detectWildcardAdvanced.
calculateStatistics(count, ips) ==
    LET unique == Cardinality(DOMAIN ips)
        total == SumCounts(ips, DOMAIN ips)
        successRate == IF TestCount > 0 THEN <<count * 100, TestCount>>
                       ELSE <<0, 1>>
        ipRepeatRate == IPRepeatRateOf(total, unique)
    IN  [SuccessRate |-> successRate, IPRepeatRate |-> ipRepeatRate,
         UniqueIPs |-> unique, TotalIPs |-> total,
         IsWildcard |-> IsWildcardOf(successRate, ipRepeatRate)]

NoStatistics == [SuccessRate |-> <<0, 1>>, IPRepeatRate |-> <<0, 1>>,
                 UniqueIPs |-> 0, TotalIPs |-> 0, IsWildcard |-> FALSE]

\* allIPs[ip]++ for each address of a probe's answer.
RECURSIVE CountIPs(_, _)
CountIPs(ips, counts) ==
    IF ips = <<>> THEN counts
    ELSE LET ip == Head(ips)
             n == IF ip \in DOMAIN counts THEN counts[ip] ELSE 0
         IN  CountIPs(Tail(ips),
                      [k \in DOMAIN counts \cup {ip} |->
                          IF k = ip THEN n + 1 ELSE counts[k]])

EmptyMap == [k \in {} |-> 0]

\* Run leaves the dictionary phase out when the detection says wildcard.
SkipsDictionaryNever(isWildcard) == FALSE

SkipsDictionary(isWildcard) == isWildcard

\* ---- Brute.Run
BruteLocalsReset ==
    /\ testSubdomains' = <<>>
    /\ pNext' = 1
    /\ pFlight' = {}
    /\ successCount' = 0
    /\ allIPs' = EmptyMap
    /\ wres' = NoStatistics
    /\ subdomains' = <<>>
    /\ dNext' = 1
    /\ dFlight' = {}
    /\ queried' = {}

BruteFields == <<nameservers, bResults, enableWildcard, wildcardIPs>>

BruteLocals == <<testSubdomains, pNext, pFlight, successCount, allIPs, wres,
                 subdomains, dNext, dFlight, queried>>

BruteInputs == <<wordlistFile, bConcurrent, domainQueue, zone, bDomain>>

BruteIdle ==
    /\ wordlistFile = [exists |-> FALSE, lines |-> <<>>]
    /\ bConcurrent = 1
    /\ domainQueue = <<>>
    /\ zone = NoZone
    /\ nameservers = <<>>
    /\ bResults = EmptyMap
    /\ enableWildcard = FALSE
    /\ wildcardIPs = <<>>
    /\ bpc = "idle"
    /\ bDomain = <<>>
    /\ testSubdomains = <<>>
    /\ pNext = 1
    /\ pFlight = {}
    /\ successCount = 0
    /\ allIPs = EmptyMap
    /\ wres = NoStatistics
    /\ subdomains = <<>>
    /\ dNext = 1
    /\ dFlight = {}
    /\ bRet = {}
    /\ bErr = FALSE
    /\ queried = {}
    /\ runLog = <<>>

\* NewBrute, and the files and domains of the process.
BruteInit ==
    /\ wordlistFile \in WordlistInputs
    /\ bConcurrent \in 1..MaxBruteConcurrent
    /\ domainQueue = Domains
    /\ zone = NoZone
    /\ nameservers = <<>>
    /\ bResults = EmptyMap
    /\ enableWildcard = FALSE
    /\ wildcardIPs = <<>>
    /\ bpc = "idle"
    /\ bDomain = <<>>
    /\ testSubdomains = <<>>
    /\ pNext = 1
    /\ pFlight = {}
    /\ successCount = 0
    /\ allIPs = EmptyMap
    /\ wres = NoStatistics
    /\ subdomains = <<>>
    /\ dNext = 1
    /\ dFlight = {}
    /\ bRet = {}
    /\ bErr = FALSE
    /\ queried = {}
    /\ runLog = <<>>

\* return of Run: the returned list, the error, and the record of the run.
BruteReturn(list, err, resolvers, wildcard) ==
    /\ bpc' = "returned"
    /\ bRet' = list
    /\ bErr' = err
    /\ runLog' = Append(runLog, [domain |-> bDomain, ret |-> list,
                                 err |-> err, resolvers |-> resolvers,
                                 wildcard |-> wildcard])

\* main calls Run for the next domain; the DNS of that domain is any zone.
BruteRun ==
    /\ bpc \in {"idle", "returned"}
    /\ domainQueue # <<>>
    /\ \E z \in Zones : zone' = z
    /\ bDomain' = Head(domainQueue)
    /\ domainQueue' = Tail(domainQueue)
    /\ bpc' = "getNameservers"
    /\ bRet' = {}
    /\ bErr' = FALSE
    /\ BruteLocalsReset
    /\ UNCHANGED <<wordlistFile, bConcurrent, BruteFields, runLog, notBrute>>

\* getNameservers: an error of the NS query ends Run.
GetNameservers ==
    /\ bpc = "getNameservers"
    /\ IF zone.ns.err
          THEN /\ BruteReturn({}, TRUE, nameservers, FALSE)
               /\ UNCHANGED nameservers
          ELSE /\ nameservers' = getNameservers(zone.ns.hosts, nameservers)
               /\ bpc' = "detect"
               /\ UNCHANGED <<bRet, bErr, runLog>>
    /\ UNCHANGED <<BruteInputs, bResults, enableWildcard, wildcardIPs,
                   BruteLocals, notBrute>>

\* detectWildcardAdvanced: the probes are chosen.
DetectStart ==
    /\ bpc = "detect"
    /\ \E t \in generateRandomTestSubdomains(wordlistFile, bDomain, TestCount) :
            testSubdomains' = t
    /\ bpc' = "probing"
    /\ UNCHANGED <<BruteInputs, BruteFields, pNext, pFlight, successCount,
                   allIPs, wres, subdomains, dNext, dFlight, queried, bRet,
                   bErr, runLog, notBrute>>

\* the launch loop: a token is taken before the goroutine is started.
ProbeLaunch ==
    /\ bpc = "probing"
    /\ pNext <= Len(testSubdomains)
    /\ Cardinality(pFlight) < bConcurrent
    /\ pFlight' = pFlight \cup {pNext}
    /\ pNext' = pNext + 1
    /\ UNCHANGED <<BruteInputs, BruteFields, testSubdomains, successCount,
                   allIPs, wres, subdomains, dNext, dFlight, queried, bpc,
                   bRet, bErr, runLog, notBrute>>

\* one probe goroutine: the query, the counts under the mutex, the token
\* given back.
ProbeFinish(i) ==
    /\ bpc = "probing"
    /\ i \in pFlight
    /\ LET r == querySubdomain(nameservers, zone, testSubdomains[i], bDomain)
       IN  IF r.Valid
              THEN /\ successCount' = successCount + 1
                   /\ allIPs' = CountIPs(r.IPs, allIPs)
              ELSE UNCHANGED <<successCount, allIPs>>
    /\ pFlight' = pFlight \ {i}
    /\ UNCHANGED <<BruteInputs, BruteFields, testSubdomains, pNext, wres,
                   subdomains, dNext, dFlight, queried, bpc, bRet, bErr,
                   runLog, notBrute>>

\* wg.Wait, calculateStatistics, IsWildcard, and Run's test of it.
DetectEnd ==
    /\ bpc = "probing"
    /\ pNext > Len(testSubdomains)
    /\ pFlight = {}
    /\ wres' = calculateStatistics(successCount, allIPs)
    /\ IF SkipsDictionary(wres'.IsWildcard)
          THEN BruteReturn({}, FALSE, nameservers, TRUE)
          ELSE /\ bpc' = "detectWildcard"
               /\ UNCHANGED <<bRet, bErr, runLog>>
    /\ UNCHANGED <<BruteInputs, BruteFields, testSubdomains, pNext, pFlight,
                   successCount, allIPs, subdomains, dNext, dFlight, queried,
                   notBrute>>

\* detectWildcard: two labels made from the clock.
DetectWildcard ==
    /\ bpc = "detectWildcard"
    /\ LET testIPs == queryA(nameservers, zone.wild)
                      \o queryA(nameservers, zone.wild)
       IN  IF Len(testIPs) > 0
              THEN /\ enableWildcard' = TRUE
                   /\ wildcardIPs' = testIPs
              ELSE UNCHANGED <<enableWildcard, wildcardIPs>>
    /\ bpc' = "generateDict"
    /\ UNCHANGED <<BruteInputs, nameservers, bResults, BruteLocals, bRet,
                   bErr, runLog, notBrute>>

\* generateDict: no wordlist file ends Run with an error.
GenerateDict ==
    /\ bpc = "generateDict"
    /\ IF ~wordlistFile.exists
          THEN /\ BruteReturn({}, TRUE, nameservers, FALSE)
               /\ UNCHANGED subdomains
          ELSE /\ subdomains' = generateDict(wordlistFile, bDomain)
               /\ bpc' = "brute"
               /\ UNCHANGED <<bRet, bErr, runLog>>
    /\ UNCHANGED <<BruteInputs, BruteFields, testSubdomains, pNext, pFlight,
                   successCount, allIPs, wres, dNext, dFlight, queried,
                   notBrute>>

\* bruteSubdomains: the launch loop.
BruteLaunch ==
    /\ bpc = "brute"
    /\ dNext <= Len(subdomains)
    /\ Cardinality(dFlight) < bConcurrent
    /\ dFlight' = dFlight \cup {dNext}
    /\ dNext' = dNext + 1
    /\ UNCHANGED <<BruteInputs, BruteFields, testSubdomains, pNext, pFlight,
                   successCount, allIPs, wres, subdomains, queried, bpc, bRet,
                   bErr, runLog, notBrute>>

\* one candidate goroutine: the query, and the result stored when it has an
\* address.
BruteFinish(i) ==
    /\ bpc = "brute"
    /\ i \in dFlight
    /\ LET r == querySubdomain(nameservers, zone, subdomains[i], bDomain)
       IN  IF isValidSubdomain(r)
              THEN /\ bResults' = (subdomains[i] :> r) @@ bResults
                   /\ queried' = queried \cup {subdomains[i]}
              ELSE UNCHANGED <<bResults, queried>>
    /\ dFlight' = dFlight \ {i}
    /\ UNCHANGED <<BruteInputs, nameservers, enableWildcard, wildcardIPs,
                   testSubdomains, pNext, pFlight, successCount, allIPs, wres,
                   subdomains, dNext, bpc, bRet, bErr, runLog, notBrute>>

\* wg.Wait, then the valid entries of b.results are returned.
BruteEnd ==
    /\ bpc = "brute"
    /\ dNext > Len(subdomains)
    /\ dFlight = {}
    /\ BruteReturn({name \in DOMAIN bResults : bResults[name].Valid},
                   FALSE, nameservers, FALSE)
    /\ UNCHANGED <<BruteInputs, BruteFields, BruteLocals, notBrute>>

BruteNext ==
    \/ BruteRun
    \/ GetNameservers
    \/ DetectStart
    \/ \E i \in pFlight : ProbeFinish(i)
    \/ ProbeLaunch
    \/ DetectEnd
    \/ DetectWildcard
    \/ GenerateDict
    \/ BruteLaunch
    \/ \E i \in dFlight : BruteFinish(i)
    \/ BruteEnd

\* ------------------------------------- PostProcessHosts (post-processor)
\* The hosts of the list are distinct, lower-case and trimmed (uniqueStrings
\* leaves such a list as it is).  Hosts that answer alike are
\* interchangeable, so the list is given by the number of hosts of each kind
\* and a goroutine by the kind of its host.

\* Largest cfg.ValidationConcurrency (the capacity of sem); 0 is included.
MaxPostConcurrency == 2

\* limit when cfg.ResultCheckLimit is not positive.
DefaultResultCheckLimit == 30

\* The kinds of host: what fetchOnce gives over https and over http.
HostKinds ==
    [ A |-> [https |-> 200, http |-> 200, title |-> "Default Page"],
      B |-> [https |-> 0,   http |-> 200, title |-> "Default Page"],
      C |-> [https |-> 200, http |-> 200, title |-> "Other Page"],
      F |-> [https |-> 403, http |-> 403, title |-> ""],
      D |-> [https |-> 0,   http |-> 0,   title |-> ""] ]

Kinds == DOMAIN HostKinds

Hosts(a, b, c, f, d) == [A |-> a, B |-> b, C |-> c, F |-> f, D |-> d]

NoHosts == Hosts(0, 0, 0, 0, 0)

\* The host lists the model draws from.
HostLists ==
    { Hosts(40, 0, 0, 10, 0),
      Hosts(1, 0, 0, 31, 0),
      Hosts(29, 0, 0, 1, 0),
      Hosts(1, 1, 1, 2, 1) }

ResultCheckLimits == {0, 2, 30}

RECURSIVE SumKinds(_, _)
SumKinds(counts, kinds) ==
    IF kinds = {} THEN 0
    ELSE LET k == CHOOSE x \in kinds : TRUE
         IN  counts[k] + SumKinds(counts, kinds \ {k})

HostCount(counts) == SumKinds(counts, Kinds)

\* limit := cfg.ResultCheckLimit; if limit <= 0 { limit = 30 }
LimitOf(configured) ==
    IF configured <= 0 THEN DefaultResultCheckLimit ELSE configured

\* fetch: https first, http when the status is not 200.
FetchOf(kind) ==
    LET h == HostKinds[kind]
    IN  IF h.https = 200
            THEN [kind |-> kind, status |-> 200, title |-> h.title,
                  protocol |-> "https"]
            ELSE [kind |-> kind, status |-> h.http,
                  title |-> IF h.http = 200 THEN h.title ELSE "",
                  protocol |-> "http"]

\* The 403 entries of the output.
AppendForbiddenFirstOnly(list, limit) ==
    IF Len(list) > 0 THEN SubSeq(list, 1, 1) ELSE list

AppendForbidden(list, limit) ==
    IF Len(list) > limit THEN SubSeq(list, 1, 1) ELSE list

\* SubdomainResult of an entry of okOrdered or forbidden.
PostResult(r) ==
    [Subdomain |-> r.kind, Status |-> r.status, Title |-> r.title,
     Port |-> IF r.protocol = "http" THEN 80 ELSE 443,
     Alive |-> r.status = 200, Source |-> "postprocess",
     StatusCode |-> r.status]

PostIdle ==
    /\ pInput = NoHosts
    /\ pLimit = 0
    /\ pConcurrency = 0
    /\ ppc = "idle"
    /\ waiting = NoHosts
    /\ fetching = NoHosts
    /\ okByTitle = {}
    /\ okOrdered = <<>>
    /\ forbidden = <<>>
    /\ pFinal = <<>>
    /\ pNil = FALSE

PostInit ==
    /\ pInput \in HostLists
    /\ pLimit \in ResultCheckLimits
    /\ pConcurrency \in 0..MaxPostConcurrency
    /\ ppc = "called"
    /\ waiting = NoHosts
    /\ fetching = NoHosts
    /\ okByTitle = {}
    /\ okOrdered = <<>>
    /\ forbidden = <<>>
    /\ pFinal = <<>>
    /\ pNil = FALSE

PostConfig == <<pInput, pLimit, pConcurrency>>

\* A list of at most limit hosts is not processed: nil is returned.
PostSkip ==
    /\ ppc = "called"
    /\ HostCount(pInput) <= LimitOf(pLimit)
    /\ ppc' = "returned"
    /\ pNil' = TRUE
    /\ UNCHANGED <<PostConfig, waiting, fetching, okByTitle, okOrdered,
                   forbidden, pFinal, notPost>>

\* The launch loop: one goroutine per host, none waits to be started.
PostLaunch ==
    /\ ppc = "called"
    /\ HostCount(pInput) > LimitOf(pLimit)
    /\ ppc' = "started"
    /\ waiting' = pInput
    /\ UNCHANGED <<PostConfig, fetching, okByTitle, okOrdered, forbidden,
                   pFinal, pNil, notPost>>

\* sem <- struct{}{} of a goroutine of a host of this kind.
PostAcquire(kind) ==
    /\ ppc = "started"
    /\ waiting[kind] > 0
    /\ HostCount(fetching) < pConcurrency
    /\ waiting' = [waiting EXCEPT ![kind] = @ - 1]
    /\ fetching' = [fetching EXCEPT ![kind] = @ + 1]
    /\ UNCHANGED <<PostConfig, ppc, okByTitle, okOrdered, forbidden, pFinal,
                   pNil, notPost>>

\* The fetches of a goroutine, its update under the mutex, the token given
\* back and wg.Done.
PostFetch(kind) ==
    /\ ppc = "started"
    /\ fetching[kind] > 0
    /\ LET r == FetchOf(kind)
       IN  /\ IF r.status = 200 /\ r.title \notin okByTitle
                 THEN /\ okByTitle' = okByTitle \cup {r.title}
                      /\ okOrdered' = Append(okOrdered, r)
                 ELSE UNCHANGED <<okByTitle, okOrdered>>
           /\ IF r.status = 403
                 THEN forbidden' = Append(forbidden, r)
                 ELSE UNCHANGED forbidden
    /\ fetching' = [fetching EXCEPT ![kind] = @ - 1]
    /\ UNCHANGED <<PostConfig, ppc, waiting, pFinal, pNil, notPost>>

\* wg.Wait, the cut of the 403 list, and the output.
PostReturn ==
    /\ ppc = "started"
    /\ HostCount(waiting) = 0
    /\ HostCount(fetching) = 0
    /\ LET kept == okOrdered \o AppendForbidden(forbidden, LimitOf(pLimit))
       IN  pFinal' = [k \in DOMAIN kept |-> PostResult(kept[k])]
    /\ ppc' = "returned"
    /\ UNCHANGED <<PostConfig, waiting, fetching, okByTitle, okOrdered,
                   forbidden, pNil, notPost>>

PostNext ==
    \/ PostSkip
    \/ PostLaunch
    \/ \E kind \in Kinds : PostAcquire(kind)
    \/ \E kind \in Kinds : PostFetch(kind)
    \/ PostReturn

\* ------------------------------------------ deduplication of a list
\* deduplicateDomains (validator.go) and uniqueStrings (post-processor)
\* applied to a list, and then to their own output.

\* Longest list handed to a deduplication.
MaxDedupLen == 3

\* The strings of the lists: plain, upper-case, padded, blank, empty.
DedupPool ==
    {<<"a">>, <<"A">>, <<"A", " ">>, <<" ", "b">>, <<" ">>, <<>>}

\* v = strings.TrimSpace(strings.ToLower(v))
NormalizeHost(str) == TrimSpace(ToLower(str))

\* uniqueStrings: the loop over in with the map seen and the slice out.
RECURSIVE UniqueLoop(_, _, _)
UniqueLoop(in, seen, out) ==
    IF in = <<>>
        THEN out
        ELSE LET v == NormalizeHost(Head(in))
             IN  IF v = <<>> \/ v \in seen
                     THEN UniqueLoop(Tail(in), seen, out)
                     ELSE UniqueLoop(Tail(in), seen \cup {v}, Append(out, v))

uniqueStrings(in) == UniqueLoop(in, {}, <<>>)

\* The list the next application takes: the input, or the last output.
DedupArgument == IF dOut = <<>> THEN dIn ELSE dOut[Len(dOut)]

DedupIdle ==
    /\ dIn = <<>>
    /\ dFn = "idle"
    /\ dOut = <<>>

DedupInit ==
    /\ dIn \in UNION {[1..n -> DedupPool] : n \in 0..MaxDedupLen}
    /\ dFn = "none"
    /\ dOut = <<>>

\* v.deduplicateDomains(list)
DeduplicateDomains ==
    /\ dFn \in {"none", "deduplicateDomains"}
    /\ Len(dOut) < 2
    /\ dFn' = "deduplicateDomains"
    /\ dOut' = Append(dOut, deduplicateDomains(DedupArgument))
    /\ UNCHANGED <<dIn, notDedup>>

\* uniqueStrings(list)
UniqueStrings ==
    /\ dFn \in {"none", "uniqueStrings"}
    /\ Len(dOut) < 2
    /\ dFn' = "uniqueStrings"
    /\ dOut' = Append(dOut, uniqueStrings(DedupArgument))
    /\ UNCHANGED <<dIn, notDedup>>

DedupNext ==
    \/ DeduplicateDomains
    \/ UniqueStrings

\* ----------------------------------------- OneForAllAPI (pkg/api)
\* One OneForAllAPI instance and the RunSubdomainEnumeration calls made on it
\* one after the other.  A duration is a number of seconds.  RunLib is taken
\* by its call and its return (SpecRunLib models what it does in between).

\* Largest number of RunSubdomainEnumeration calls on the instance.
MaxApiCalls == 2

\* options.Concurrency and options.Timeout when the given one is not positive.
DefaultConcurrency == 10
DefaultTimeout == 60

\* The module switches of Options, in the order registerModules tests them.
ModuleSwitches ==
    <<"EnableSearchModules", "EnableDatasetModules",
      "EnableCertificateModules", "EnableCrawlModules", "EnableCheckModules",
      "EnableIntelligenceModules", "EnableBruteForce", "EnableEnrichModules">>

\* GetDefaultOptions()
GetDefaultOptions ==
    [Target |-> <<>>, EnableValidation |-> TRUE, EnableBruteForce |-> FALSE,
     Concurrency |-> 10, Timeout |-> 60,
     EnableSearchModules |-> TRUE, EnableDatasetModules |-> TRUE,
     EnableCertificateModules |-> TRUE, EnableCrawlModules |-> TRUE,
     EnableCheckModules |-> TRUE, EnableIntelligenceModules |-> TRUE,
     EnableEnrichModules |-> TRUE]

\* The Options values a caller passes: the defaults with the target set, and
\* the defaults with some more fields set.
ApiOptions ==
    {[GetDefaultOptions EXCEPT !.Target = LibDomain]} \cup
    {[GetDefaultOptions EXCEPT
         !.Target = target, !.EnableValidation = validation,
         !.EnableBruteForce = brute, !.Concurrency = conc, !.Timeout = timeout,
         !.EnableSearchModules = others, !.EnableDatasetModules = others,
         !.EnableCertificateModules = others, !.EnableCrawlModules = others,
         !.EnableCheckModules = others, !.EnableIntelligenceModules = others,
         !.EnableEnrichModules = others] :
        target \in {<<>>, LibDomain}, validation \in BOOLEAN,
        brute \in BOOLEAN, conc \in {-1, 0, 3}, timeout \in {-5, 0, 5},
        others \in BOOLEAN}

\* if options.Target == ""
TargetMissingNever(options) == FALSE

TargetMissing(options) == options.Target = <<>>

\* The two "if ... <= 0" defaults of RunSubdomainEnumeration.
WithDefaultsNone(options) == options

WithDefaults(options) ==
    [options EXCEPT
        !.Concurrency = IF @ <= 0 THEN DefaultConcurrency ELSE @,
        !.Timeout = IF @ <= 0 THEN DefaultTimeout ELSE @]

\* The modules one register...Modules function registers (one of each
\* function's list stands for the list; registerBruteModules: both).
ModulesOfSwitch(switch) ==
    CASE switch = "EnableSearchModules" -> <<"GoogleSearch">>
      [] switch = "EnableDatasetModules" -> <<"AnubisQuery">>
      [] switch = "EnableCertificateModules" -> <<"CrtshQuery">>
      [] switch = "EnableCrawlModules" -> <<"CommonCrawl">>
      [] switch = "EnableCheckModules" -> <<"RobotsCheck">>
      [] switch = "EnableIntelligenceModules" -> <<"VirusTotalQuery">>
      [] switch = "EnableBruteForce" -> <<"Brute", "Alt">>
      [] switch = "EnableEnrichModules" -> <<"enrich">>

\* Dispatcher.RegisterModule for each module of a list.
RECURSIVE RegisterAll(_, _)
RegisterAll(reg, names) ==
    IF names = <<>>
        THEN reg
        ELSE RegisterAll([reg EXCEPT ![RegisterField(Head(names))] =
                               Append(@, Head(names))],
                         Tail(names))

\* registerModules(options): the switches in order.
RECURSIVE RegisterSwitches(_, _, _)
RegisterSwitches(reg, options, switches) ==
    IF switches = <<>>
        THEN reg
        ELSE RegisterSwitches(
                 IF options[Head(switches)]
                     THEN RegisterAll(reg, ModulesOfSwitch(Head(switches)))
                     ELSE reg,
                 options, Tail(switches))

registerModules(reg, options) == RegisterSwitches(reg, options, ModuleSwitches)

\* libOptions of the RunLib call.
LibOptionsOf(options) ==
    [enable_validation |-> options.EnableValidation,
     enable_brute_force |-> options.EnableBruteForce,
     concurrency |-> options.Concurrency,
     timeout |-> options.Timeout]

\* *Result: nil, or its fields.
NoResult == [isNil |-> TRUE, Domain |-> <<>>, Error |-> "", TotalSubdomains |-> 0]

ApiIdle ==
    /\ apiRegistry = EmptyRegistry
    /\ apc = "idle"
    /\ apiCalls = 0
    /\ apiOptions = GetDefaultOptions
    /\ apiResult = NoResult
    /\ apiErr = ""
    /\ libCalls = <<>>

\* NewOneForAllAPI()
NewOneForAllAPI ==
    /\ apiRegistry = EmptyRegistry
    /\ apc = "ready"
    /\ apiCalls = 0
    /\ apiOptions = GetDefaultOptions
    /\ apiResult = NoResult
    /\ apiErr = ""
    /\ libCalls = <<>>

\* RunSubdomainEnumeration(options) up to its return for a missing target,
\* or up to its call of RunLib.
RunSubdomainEnumeration(given) ==
    /\ apc = "ready"
    /\ apiCalls < MaxApiCalls
    /\ apiCalls' = apiCalls + 1
    /\ IF TargetMissing(given)
          THEN /\ apiOptions' = given
               /\ apiResult' = [isNil |-> FALSE, Domain |-> given.Target,
                                Error |-> "target domain is required",
                                TotalSubdomains |-> 0]
               /\ apiErr' = "target domain is required"
               /\ UNCHANGED <<apiRegistry, apc, libCalls>>
          ELSE LET options == WithDefaults(given)
                   reg == registerModules(apiRegistry, options)
               IN  /\ apiOptions' = options
                   /\ apiRegistry' = reg
                   /\ libCalls' = Append(libCalls,
                         [domain |-> options.Target,
                          options |-> LibOptionsOf(options),
                          given |-> given,
                          registry |-> reg])
                   /\ apc' = "inRunLib"
                   /\ apiResult' = NoResult
                   /\ apiErr' = ""
    /\ UNCHANGED notApi

\* RunLib returns (its error is always nil) and the Result is built.
RunLibReturns(total) ==
    /\ apc = "inRunLib"
    /\ apc' = "ready"
    /\ apiResult' = [isNil |-> FALSE, Domain |-> apiOptions.Target,
                     Error |-> "", TotalSubdomains |-> total]
    /\ apiErr' = ""
    /\ UNCHANGED <<apiRegistry, apiCalls, apiOptions, libCalls, notApi>>

ApiNext ==
    \/ \E given \in ApiOptions : RunSubdomainEnumeration(given)
    \/ \E total \in 0..1 : RunLibReturns(total)

\* ------------------------------------------------ specifications
Next ==
    \/ Enter
    \/ Launch
    \/ StartWait
    \/ TimerFire
    \/ \E i \in Modules : Acquire(i)
    \/ \E i \in Modules : Skip(i)
    \/ \E i \in Modules : RunOk(i)
    \/ \E i \in Modules : RunErr(i)
    \/ \E i \in Modules : RunPanic(i)
    \/ \E i \in Modules : Release(i)
    \/ \E i \in Modules : Recover(i)
    \/ \E i \in Modules : WgDone(i)
    \/ WaitDone
    \/ MainCompleted
    \/ MainTimeout

Init ==
    StageInit /\ ValidateIdle /\ RunIdle /\ BruteIdle
        /\ LibIdle /\ PostIdle /\ DedupIdle /\ ApiIdle

Spec == Init /\ [][Next]_vars

InitValidate ==
    ValidateInit /\ StageIdle /\ RunIdle /\ BruteIdle
        /\ LibIdle /\ PostIdle /\ DedupIdle /\ ApiIdle

SpecValidate == InitValidate /\ [][ValidateNext]_vars

InitRunAll ==
    RunInit /\ StageIdle /\ ValidateIdle /\ BruteIdle
        /\ LibIdle /\ PostIdle /\ DedupIdle /\ ApiIdle

SpecRunAll == InitRunAll /\ [][RunNext]_vars

InitBrute ==
    BruteInit /\ StageIdle /\ ValidateIdle /\ RunIdle
        /\ LibIdle /\ PostIdle /\ DedupIdle /\ ApiIdle

SpecBrute == InitBrute /\ [][BruteNext]_vars

InitRunLib ==
    LibInit /\ StageIdle /\ ValidateIdle /\ BruteIdle
        /\ PostIdle /\ DedupIdle /\ ApiIdle

SpecRunLib == InitRunLib /\ [][LibNext]_vars

InitPost ==
    PostInit /\ StageIdle /\ ValidateIdle /\ RunIdle
        /\ BruteIdle /\ LibIdle /\ DedupIdle /\ ApiIdle

SpecPost == InitPost /\ [][PostNext]_vars

InitDedup ==
    DedupInit /\ StageIdle /\ ValidateIdle /\ RunIdle
        /\ BruteIdle /\ LibIdle /\ PostIdle /\ ApiIdle

SpecDedup == InitDedup /\ [][DedupNext]_vars

InitApi ==
    NewOneForAllAPI /\ StageIdle /\ ValidateIdle /\ RunIdle
        /\ BruteIdle /\ LibIdle /\ PostIdle /\ DedupIdle

SpecApi == InitApi /\ [][ApiNext]_vars

\* ------------------------------------------------------------------ claims
Card(S) == Cardinality(S)

Enabled(i) == i <= Len(modules) /\ modules[i]

InRun == {i \in Modules : wpc[i] = "run"}

HoldsToken == {i \in Modules : wpc[i] \in {"run", "release"}}

\* C1: in a non-brute stage a collector that was inside Run when the timeout
\* timer fired, and whose Run then returned without error, has its subdomains in
\* the list the stage call returned.
C1_RunningAtTimeoutContributes ==
    \A i \in Modules :
        (mpc = "returned" /\ ~isBruteStep /\ pcAtFire[i] = "run" /\ outcome[i] = "ok")
            => Range(RunOutput(i)) \subseteq Range(ret)

\* C2: in a non-brute stage a collector that held no semaphore token when the
\* timeout timer fired is skipped: its Run is never invoked, its output is not in
\* the stage result and no error is recorded for it.
C2_WaitingAtTimeoutSkipped ==
    \A i \in Modules :
        (~isBruteStep /\ Enabled(i) /\ pcAtFire[i] \in {"idle", "acquire"})
            => /\ wpc[i] # "run"
               /\ outcome[i] \in {"none", "skipped"}
               /\ i \notin Range(errors)
               /\ Range(RunOutput(i)) \cap Range(ret) = {}

\* C3: for a concurrency of at least 1, in the timed and in the untimed mode, at
\* most that many collectors are inside Run at once; the tokens in the semaphore
\* are exactly those of the collectors between their acquire and their release,
\* so a collector whose Run returned, failed or panicked gives its token back.
C3_ConcurrencyBound ==
    concurrency >= 1 =>
        /\ Card(InRun) <= concurrency
        /\ semaphore = Card(HoldsToken)
        /\ semaphore <= concurrency

\* C3 witness: the semaphore is full, one collector is inside Run holding the
\* token that a collector whose Run panicked has given back, and the stage is
\* the timed or the untimed one.
C3_Witness ==
    /\ concurrency = 1
    /\ semaphore = 1
    /\ \E i, j \in Modules :
          /\ outcome[i] = "panic" /\ wpc[i] \in {"recover", "wgdone", "done"}
          /\ wpc[j] = "run"

\* C4: a collector whose Run returns an error or panics never aborts the stage:
\* the call returns a nil error, the failing collector contributes nothing, and
\* when the timeout has not fired the returned list holds the output of every
\* collector whose Run succeeded.
C4_ErrorsNeverAbortStage ==
    mpc = "returned" =>
        /\ retErr = "nil"
        /\ \A i \in Modules :
              outcome[i] \in {"err", "panic"} =>
                  Range(RunOutput(i)) \cap (Range(ret) \cup Range(allResults)) = {}
        /\ timerAtReturn # "fired" =>
              \A i \in Modules :
                  Enabled(i) =>
                      /\ wpc[i] = "done"
                      /\ outcome[i] \in {"ok", "err", "panic"}
                      /\ outcome[i] = "ok" => Range(RunOutput(i)) \subseteq Range(ret)

\* C4 witness: concurrency 1, the timeout has not fired, one collector panicked
\* and its sibling's output is in the returned list.
C4_Witness ==
    /\ mpc = "returned"
    /\ concurrency = 1
    /\ timerAtReturn = "sleeping"
    /\ \E i, j \in Modules :
          /\ outcome[i] = "panic"
          /\ outcome[j] = "ok"
          /\ Range(RunOutput(j)) \subseteq Range(ret)

\* C6: on the brute step there is no timeout: the call returns only after the
\* Run of every enabled collector has returned or panicked, none is skipped, and
\* the result holds the output of every collector whose Run succeeded.
C6_BruteStepWaitsForAll ==
    isBruteStep =>
        /\ timer = "none"
        /\ done = 0
        /\ \A i \in Modules : outcome[i] # "skipped"
        /\ mpc = "returned" =>
              \A i \in Modules :
                  Enabled(i) =>
                      /\ wpc[i] = "done"
                      /\ outcome[i] \in {"ok", "err", "panic"}
                      /\ outcome[i] = "ok" => Range(RunOutput(i)) \subseteq Range(ret)

\* C6 witness: a brute step of two collectors under concurrency 1 has returned,
\* one collector failed and the other's output is in the result.
C6_Witness ==
    /\ isBruteStep
    /\ mpc = "returned"
    /\ concurrency = 1
    /\ \E i, j \in Modules :
          /\ outcome[i] = "err"
          /\ outcome[j] = "ok"
          /\ Range(RunOutput(j)) \subseteq Range(ret)

\* The distinct normalized, non-empty candidates of a list.
NormalizedSet(list) == {Normalize(list[k]) : k \in DOMAIN list} \ {<<>>}

\* The results that carry subdomain d.
ResultsOf(list, d) == {k \in DOMAIN list : list[k].Subdomain = d}

Validated == {w \in Workers : vwpc[w] \in {"release", "wgdone", "done"}}

\* C7: ValidateDomains returns exactly one ValidationResult for every distinct
\* normalized (lower-cased, trimmed, non-empty) candidate, with that candidate
\* as its Subdomain, alive or dead; none is dropped and none reported twice.
C7_OneResultPerCandidate ==
    vpc = "returned" =>
        /\ Len(vRet) = Card(NormalizedSet(domains))
        /\ \A d \in NormalizedSet(domains) : Card(ResultsOf(vRet, d)) = 1

\* C7 witness: three candidates, two of them equal after normalization, have
\* been validated by two goroutines; one result is alive and one is dead.
C7_Witness ==
    /\ vpc = "returned"
    /\ Len(domains) = 3
    /\ Len(vRet) = 2
    /\ \E k, l \in DOMAIN vRet : vRet[k].Alive /\ ~vRet[l].Alive

\* C8: each validated candidate has exactly one of three outcomes. No usable
\* address from DNS: dnsResolved, pingAlive, alive all false, statusCode -1.
\* DNS success and both TCP probes (80, then 443) failing: dnsResolved true,
\* alive false, statusCode 0. DNS success and either probe succeeding: alive
\* true, statusCode 200. No other combination of the fields is produced.
C8_ThreeOutcomes ==
    \A w \in Validated :
        /\ Card(ResultsOf(results, uniqueDomains[w])) = 1
        /\ \A k \in ResultsOf(results, uniqueDomains[w]) :
              LET r == results[k]
                  a == probe[w]
                  dnsOk == resolveDomain(a.lookup, excludePrivateIP) # <<>>
                  fields == <<r.DNSResolved, r.PingAlive, r.Alive, r.StatusCode>>
              IN  /\ ~dnsOk => fields = <<FALSE, FALSE, FALSE, -1>>
                  /\ (dnsOk /\ a.tcp80 = "fail" /\ a.tcp443 = "fail")
                        => fields = <<TRUE, FALSE, FALSE, 0>>
                  /\ (dnsOk /\ (a.tcp80 = "ok" \/ a.tcp443 = "ok"))
                        => fields = <<TRUE, TRUE, TRUE, 200>>
                  /\ fields \in {<<FALSE, FALSE, FALSE, -1>>,
                                 <<TRUE, FALSE, FALSE, 0>>,
                                 <<TRUE, TRUE, TRUE, 200>>}

\* C8 witness: one call produced a DNS failure caused by a lookup error and an
\* alive result whose port-80 probe failed and whose port-443 probe succeeded.
C8_Witness ==
    \E v, w \in Validated :
        /\ probe[v].lookup.err
        /\ probe[w].tcp80 = "fail" /\ probe[w].tcp443 = "ok"
        /\ \E k \in ResultsOf(results, uniqueDomains[v]) : results[k].StatusCode = -1
        /\ \E k \in ResultsOf(results, uniqueDomains[w]) : results[k].StatusCode = 200

\* C10: validation runs to completion for every candidate list and every
\* configured concurrency: as long as ValidateDomains has not returned, one of
\* its goroutines can take a step (none is blocked for ever on the semaphore).
C10_ValidationCompletes ==
    vpc = "returned" \/ ENABLED ValidateNext

\* The place of a step name in the declared order of the collection stages.
DeclaredOrder ==
    <<"Fast Search", "Dataset", "Certificate", "Crawl", "DNS Lookup",
      "Intelligence", "Brute Force", "File Check", "Enrich">>

Place(stepName) == CHOOSE k \in DOMAIN DeclaredOrder : DeclaredOrder[k] = stepName

RECURSIVE Flatten(_)
Flatten(lists) == IF lists = <<>> THEN <<>> ELSE Head(lists) \o Flatten(Tail(lists))

\* C5: RunAllModules makes the stage calls of the enabled collection stages in
\* the declared order, each at most once and never for the Validation step, and
\* calls the Validator at most once, only after the last stage call has
\* returned, over the concatenation of all stage outputs; the Validator is not
\* called when validation is disabled or no candidate was collected.
C5_StagesInOrderThenValidator ==
    /\ \A k \in DOMAIN calls : calls[k] \in Range(DeclaredOrder)
    /\ \A k, l \in DOMAIN calls : k < l => Place(calls[k]) < Place(calls[l])
    /\ \A k \in DOMAIN calls :
          \E n \in DOMAIN executionSteps :
              executionSteps[n] = calls[k] /\ stepEnabled[n]
    /\ validatorCalls <= 1
    /\ validatorCalls = 1 =>
          /\ rpc \in {"validating", "returned"}
          /\ Len(collected) = Len(calls)
          /\ validatorArg = Flatten(collected)
          /\ enableDomainValidation
          /\ validatorArg # <<>>
    /\ rpc = "returned" =>
          /\ \A n \in DOMAIN executionSteps :
                (/\ stepEnabled[n]
                 /\ executionSteps[n] # "Validation"
                 /\ getModulesForStep(registry, executionSteps[n]) # <<>>)
                    => executionSteps[n] \in Range(calls)
          /\ validatorCalls = 1 <=>
                (enableDomainValidation /\ Flatten(collected) # <<>>)

\* C5 witness: a run made three stage calls, among them Intelligence and Brute
\* Force, then called the Validator and returned.
C5_Witness ==
    /\ rpc = "returned"
    /\ Len(calls) = 3
    /\ {"Intelligence", "Brute Force"} \subseteq Range(calls)
    /\ validatorCalls = 1

\* C9: with validation enabled, every subdomain string a stage had in its list
\* of the result map before validation is still in that list when
\* RunAllModules returns, whatever its validation outcome.
C9_ValidationNeverErases ==
    (rpc = "returned" /\ validatorCalls = 1) =>
        \A t \in DOMAIN resultsBefore :
            Range(resultsBefore[t]) \subseteq Range(stageResults[t])

\* ------------------------------------------------------ claims on Brute
\* detectWildcardAdvanced has returned in the current run.
Detected ==
    \/ bpc \in {"detectWildcard", "generateDict", "brute"}
    \/ bpc = "returned" /\ testSubdomains # <<>>
                        /\ pNext > Len(testSubdomains)

\* C11: once the detection has run, successRate is successes / testCount * 100,
\* ipRepeatRate is (totalIPs - uniqueIPs) / totalIPs * 100 and 0 when no
\* address was resolved, and isWildcard holds exactly when successRate > 90
\* and ipRepeatRate > 50, both strictly; no success gives isWildcard = FALSE.
C11_WildcardFormula ==
    Detected =>
        /\ wres.UniqueIPs = Cardinality(DOMAIN allIPs)
        /\ wres.TotalIPs = SumCounts(allIPs, DOMAIN allIPs)
        /\ wres.SuccessRate[1] * TestCount
               = successCount * 100 * wres.SuccessRate[2]
        /\ IF wres.TotalIPs = 0
              THEN wres.IPRepeatRate[1] = 0
              ELSE wres.IPRepeatRate[1] * wres.TotalIPs
                       = (wres.TotalIPs - wres.UniqueIPs) * 100
                             * wres.IPRepeatRate[2]
        /\ wres.IsWildcard <=>
               /\ successCount * 10 > 9 * TestCount
               /\ wres.TotalIPs > 2 * wres.UniqueIPs
        /\ successCount = 0 => ~wres.IsWildcard

\* A success rate of exactly 90 with repeated addresses, and a repeat rate of
\* exactly 50 with every probe resolved: neither is a wildcard.
C11_Witness ==
    /\ Detected
    /\ successCount * 10 = 9 * TestCount
    /\ wres.TotalIPs > 2 * wres.UniqueIPs
    /\ ~wres.IsWildcard

\* Every one of the 20 probes resolved to the same single address.
AllProbesSameIP ==
    /\ Detected
    /\ Len(testSubdomains) = TestCount
    /\ successCount = TestCount
    /\ wres.TotalIPs = TestCount
    /\ wres.UniqueIPs = 1

\* C12 as stated: 20 probes resolving to one address give successRate = 100,
\* ipRepeatRate = 100 and isWildcard = TRUE.
C12_SameIPGivesRepeat100 ==
    AllProbesSameIP =>
        /\ RateEq(wres.SuccessRate, 100)
        /\ RateEq(wres.IPRepeatRate, 100)
        /\ wres.IsWildcard

\* C12 amended: 20 probes resolving to one address give successRate = 100,
\* ipRepeatRate = (20 - 1) / 20 * 100 = 95 and isWildcard = TRUE.
C12_SameIPGivesRepeat95 ==
    AllProbesSameIP =>
        /\ RateEq(wres.SuccessRate, 100)
        /\ RateEq(wres.IPRepeatRate, 95)
        /\ wres.IsWildcard

C12_Witness == AllProbesSameIP /\ bpc = "returned"

\* C13: when the detection says wildcard, Run returns the empty list and no
\* error, no candidate is generated or resolved, and b.results is not
\* changed from the detection on.
C13_WildcardSkipsDictionary ==
    /\ [](Detected /\ wres.IsWildcard =>
            /\ bpc = "returned"
            /\ bRet = {}
            /\ ~bErr
            /\ subdomains = <<>>
            /\ dNext = 1
            /\ dFlight = {}
            /\ queried = {})
    /\ [][wres'.IsWildcard => bResults' = bResults]_vars

C13_Witness ==
    /\ bpc = "returned"
    /\ Detected
    /\ wres.IsWildcard
    /\ bRet = {}
    /\ wordlistFile.exists

\* The hostnames w.domain, for w a non-blank, non-comment line of the
\* wordlist, that the zone answers with an address.
WordsOf(file) ==
    {w \in {TrimSpace(file.lines[k]) : k \in DOMAIN file.lines} :
        w # <<>> /\ w[1] # "#"}

ExpectedHosts ==
    {Hostname(w, bDomain) : w \in {v \in WordsOf(wordlistFile) :
                                       ZoneAnswer(zone, v) # <<>>}}

FreshRunReturned == bpc = "returned" /\ Len(runLog) = 1 /\ ~bErr

RECURSIVE Concat(_)
Concat(lists) ==
    IF lists = <<>> THEN <<>> ELSE Head(lists) \o Concat(Tail(lists))

NameserverIPs == Range(Concat(zone.ns.hosts))

ResolversInUse ==
    bpc \in {"detect", "probing", "detectWildcard", "generateDict", "brute"}

\* C15: when a nameserver hostname of the NS answer has an A record, the
\* resolvers used by the probes and the dictionary phase are the addresses
\* of the nameservers.
C15_AuthoritativeResolvers ==
    ResolversInUse /\ NameserverIPs # {} => Range(nameservers) = NameserverIPs

\* C16: the second Run of the same module returns only hostnames found in
\* that run, and its resolvers are those of its own NS answer, or the public
\* list when no nameserver resolves.
C16_NoStateAcrossRuns ==
    Len(runLog) = 2 /\ bpc = "returned" /\ ~bErr =>
        /\ bRet \subseteq queried
        /\ Range(nameservers) \in {NameserverIPs, Range(getPublicNameservers)}

\* ------------------------------------------- claims on the registration
\* How many times name was registered, and how many times a stage call of
\* this run was handed it.
TimesRegistered(name) ==
    Cardinality({k \in DOMAIN registry[RegisterField(name)] :
                    registry[RegisterField(name)][k] = name})

TimesHanded(name) ==
    Cardinality({pos \in (DOMAIN calls) \X (1..MaxRegistered) :
        /\ pos[2] <= Len(getModulesForStep(registry, calls[pos[1]]))
        /\ getModulesForStep(registry, calls[pos[1]])[pos[2]] = name})

AllStepsEnabled == \A k \in DOMAIN stepEnabled : stepEnabled[k]

\* C17: with every stage enabled, once the loop over the stages is over each
\* collector that was registered once has been handed to exactly one stage
\* call.
C17_EachCollectorInOneStage ==
    (stepIdx > Len(executionSteps) /\ AllStepsEnabled) =>
        \A name \in ModuleNames :
            TimesRegistered(name) = 1 => TimesHanded(name) = 1

\* ------------------------------------------------------ claims on RunLib
\* strings.HasSuffix
HasSuffix(str, suffix) ==
    /\ Len(str) >= Len(suffix)
    /\ SubSeq(str, Len(str) - Len(suffix) + 1, Len(str)) = suffix

WhitespaceOrControl == {" ", "\t", "\n", "\r"}

IsProperSubdomain(str, domain) ==
    /\ HasSuffix(str, <<".">> \o domain)
    /\ str # domain
    /\ \A k \in DOMAIN str : str[k] \notin WhitespaceOrControl

\* C18: every subdomain string RunLib returns ends with "." + domain, is not
\* the domain, and has no white space or control character.
C18_CandidatesUnderDomain ==
    rpc = "libreturned" =>
        \A k \in DOMAIN libResults :
            IsProperSubdomain(libResults[k].Subdomain, LibDomain)

\* C19: the list RunLib returns has at most one SubdomainResult per
\* lower-cased, trimmed subdomain.
C19_OneResultPerSubdomain ==
    rpc = "libreturned" =>
        \A i, j \in DOMAIN libResults :
            i # j => Normalize(libResults[i].Subdomain)
                        # Normalize(libResults[j].Subdomain)

\* The call of the example: 50 hosts, 40 of them answering 200 with one
\* title and 10 answering 403, and a limit of 30.
FiftyHostsCall ==
    /\ pInput = Hosts(40, 0, 0, 10, 0)
    /\ LimitOf(pLimit) = 30

\* The number of entries of the returned list with this status.
EntriesWithStatus(status) ==
    Cardinality({k \in DOMAIN pFinal : pFinal[k].Status = status})

\* C20 (as stated): for 50 hosts of which 40 answer 200 with one title and
\* 10 answer 403, with a limit of 30, the returned list holds exactly one
\* entry of the 200 group and exactly one entry of the 403 group, whatever
\* the order in which the fetches complete.
C20_OnePerGroup ==
    (ppc = "returned" /\ FiftyHostsCall) =>
        /\ ~pNil
        /\ EntriesWithStatus(200) = 1
        /\ EntriesWithStatus(403) = 1

\* C20 (amended): for that call the returned list holds exactly one entry
\* of the 200 group, alive, and the entries of all ten 403 hosts, not
\* alive, after it, whatever the order in which the fetches complete: ten
\* 403 answers do not exceed the limit of 30.
C20_OneOkAllForbidden ==
    (ppc = "returned" /\ FiftyHostsCall) =>
        /\ ~pNil
        /\ Len(pFinal) = 11
        /\ pFinal[1].Status = 200 /\ pFinal[1].Alive
        /\ \A k \in 2..11 : pFinal[k].Status = 403 /\ ~pFinal[k].Alive

\* The call of the example has returned, two fetches running at a time, with
\* ten 403 answers and one title kept.
C20_Witness ==
    /\ ppc = "returned"
    /\ FiftyHostsCall
    /\ pConcurrency = 2
    /\ Len(forbidden) = 10
    /\ Len(okOrdered) = 1

\* The caller leaves its select and reads errors and allResults; it does not
\* take the mutex.
UnlockedRead == mpc = "wait" /\ mpc' = "returned"

\* The goroutine of collector i can still append to allResults or to errors.
CanStillWrite(i) ==
    \/ wpc[i] \in {"run", "recover"}
    \/ wpc[i] = "acquire" /\ concurrency > 0
    \/ wpc[i] = "release" /\ outcome[i] = "panic"

\* C21: every access to the result and error lists of
\* runModulesWithConcurrency is made under the mutex or when no other
\* goroutine can access them: when the caller reads the lists without the
\* lock, no collector goroutine can still append to them.
C21_AccumulatorsLocked ==
    [][UnlockedRead => \A i \in Modules : ~CanStillWrite(i)]_vars

\* Both applications of the function have been made.
DedupTwice == Len(dOut) = 2

\* C22: deduplicating is idempotent, case-insensitive and trimmed: the
\* output of the second application equals that of the first; the output
\* has no two entries equal after lower-casing and trimming and no empty
\* entry; and it holds the normalized form of every entry of the list that
\* is not empty once trimmed.
C22_DedupIdempotent ==
    DedupTwice =>
        /\ dOut[2] = dOut[1]
        /\ \A j, k \in DOMAIN dOut[1] :
               j # k => Normalize(dOut[1][j]) # Normalize(dOut[1][k])
        /\ \A k \in DOMAIN dOut[1] : dOut[1][k] # <<>>
        /\ \A k \in DOMAIN dIn :
               Normalize(dIn[k]) # <<>> =>
                   \E j \in DOMAIN dOut[1] : dOut[1][j] = Normalize(dIn[k])

\* C22 witness: a list of three entries, one of them blank and two equal
\* after normalization but not before, deduplicated twice to one entry.
C22_Witness ==
    /\ DedupTwice
    /\ dFn = "deduplicateDomains"
    /\ Len(dIn) = 3
    /\ \E j, k, l \in DOMAIN dIn :
           /\ dIn[j] # dIn[k]
           /\ Normalize(dIn[j]) = Normalize(dIn[k])
           /\ dIn[l] # <<>> /\ Normalize(dIn[l]) = <<>>
    /\ Len(dOut[2]) = 1

\* A RunSubdomainEnumeration call is made whose options have no target.
EmptyTargetCall ==
    /\ apiCalls' = apiCalls + 1
    /\ apiOptions'.Target = <<>>

\* C23: RunSubdomainEnumeration with an empty Target returns a non-nil error
\* and a non-nil Result whose Error is not empty, and stops there: no module
\* is registered and RunLib is not called.
C23_EmptyTargetAborts ==
    [][EmptyTargetCall =>
          /\ apiErr' # ""
          /\ ~apiResult'.isNil
          /\ apiResult'.Error # ""
          /\ apiRegistry' = apiRegistry
          /\ libCalls' = libCalls
          /\ apc' = "ready"]_vars

\* C23 witness: a call with a target has registered modules and run the
\* pipeline, and the next call, without a target, has returned its error.
C23_Witness ==
    /\ apiCalls = 2
    /\ apc = "ready"
    /\ apiOptions.Target = <<>>
    /\ apiErr # ""
    /\ Len(libCalls) = 1
    /\ Registered(apiRegistry) > 0

\* C24: GetDefaultOptions gives Target "", EnableValidation true,
\* EnableBruteForce false, Concurrency 10 and Timeout 60 s; and every RunLib
\* call of RunSubdomainEnumeration gets a positive concurrency and a positive
\* timeout: the given ones when they are positive, 10 and 60 s otherwise.
C24_DefaultsApplied ==
    /\ GetDefaultOptions.Target = <<>>
    /\ GetDefaultOptions.EnableValidation
    /\ ~GetDefaultOptions.EnableBruteForce
    /\ GetDefaultOptions.Concurrency = 10
    /\ GetDefaultOptions.Timeout = 60
    /\ \A k \in DOMAIN libCalls :
          LET call == libCalls[k]
          IN  /\ call.options.concurrency > 0
              /\ call.options.timeout > 0
              /\ call.options.concurrency =
                     IF call.given.Concurrency <= 0 THEN 10
                     ELSE call.given.Concurrency
              /\ call.options.timeout =
                     IF call.given.Timeout <= 0 THEN 60
                     ELSE call.given.Timeout

\* C24 witness: RunLib is running for a call that gave concurrency 0 and a
\* negative timeout.
C24_Witness ==
    /\ apc = "inRunLib"
    /\ libCalls[Len(libCalls)].given.Concurrency = 0
    /\ libCalls[Len(libCalls)].given.Timeout < 0
    /\ libCalls[Len(libCalls)].options.concurrency = 10

\* The number of entries of a module in the slices of the dispatcher.
TimesInRegistry(reg, name) ==
    Len(SelectSeq(reg.searchModules \o reg.bruteModules
                      \o reg.dnsLookupModules \o reg.checkModules
                      \o reg.crawlModules \o reg.enrichModules
                      \o reg.datasetModules \o reg.certificateModules
                      \o reg.intelligenceModules,
                  LAMBDA n : n = name))

\* C30: repeated RunSubdomainEnumeration calls on one instance run each
\* collector once per call: at every RunLib call no collector is registered
\* more than once, and with the same switches as the call before the number
\* of registered modules is the same.
C30_RegisteredOncePerCall ==
    \A k \in DOMAIN libCalls :
        /\ \A name \in ModuleNames \cup {"Alt", "CommonCrawl", "RobotsCheck"} :
               TimesInRegistry(libCalls[k].registry, name) <= 1
        /\ (k > 1 /\ libCalls[k].given = libCalls[k - 1].given) =>
               Registered(libCalls[k].registry)
                   = Registered(libCalls[k - 1].registry)

\* C25: stages do not overlap: when a stage call has returned, so that the
\* caller goes on to the next stage, no collector of the stage is inside Run
\* and none can still start Run.
C25_StageCompleteAtReturn ==
    mpc = "returned" =>
        \A i \in Modules :
            /\ wpc[i] # "run"
            /\ ~(wpc[i] = "acquire" /\ concurrency > 0)

\* C28: a stage call that is not the brute step returns, whatever the
\* concurrency (0 included), the timeout and the collectors, when every Run
\* terminates: as long as it has not returned, the caller, the timer or a
\* collector goroutine can take a step (none is blocked for ever on the
\* semaphore, on the timeout signal or on the completion signal).
C28_TimedStageReturns ==
    (~isBruteStep /\ mpc # "returned") => ENABLED Next

\* The result carries the validation values of this ValidationResult.
CarriesValidation(result, v) ==
    /\ result.Alive = v.Alive
    /\ result.IP = v.IP
    /\ result.DNSResolved = v.DNSResolved
    /\ result.PingAlive = v.PingAlive
    /\ result.StatusCode = v.StatusCode
    /\ result.StatusText = v.StatusText

\* C26: with validation enabled, every SubdomainResult RunLib returns carries
\* the alive, IP, dnsResolved, pingAlive, statusCode and statusText values of
\* the ValidationResult the Validator computed for its subdomain (the
\* result for the normalized form of the string), whatever the string.
C26_ResultsCarryValidation ==
    (rpc = "libreturned" /\ libOptions.enable_validation) =>
        \A k \in DOMAIN libResults :
            \E j \in DOMAIN validationResults :
                /\ validationResults[j].Subdomain
                       = Normalize(libResults[k].Subdomain)
                /\ CarriesValidation(libResults[k], validationResults[j])

\* C27: with validation disabled, the per-stage map RunAllModules returns
\* holds every subdomain every executed stage collected: no stage's list is
\* replaced by the list of another stage stored under the same key.
C27_NoStageListLost ==
    (rpc = "returned" /\ ~enableDomainValidation) =>
        \A k \in DOMAIN collected :
            \A n \in DOMAIN collected[k] :
                \E t \in DOMAIN stageResults :
                    \E m \in DOMAIN stageResults[t] :
                        stageResults[t][m] = collected[k][n]

\* Every probe that was issued resolved, all of them to one address.
EveryProbeSameIP ==
    /\ successCount = Len(testSubdomains)
    /\ wres.UniqueIPs = 1

\* C29: the detection issues exactly testCount = 20 probes, so that
\* successRate is the percentage of the issued probes that resolved: a zone
\* that answers every probe with the same address is classified as wildcard
\* whatever the number of words of the wordlist.
C29_TwentyProbesIssued ==
    Detected =>
        /\ Len(testSubdomains) = TestCount
        /\ wres.SuccessRate[1] * Len(testSubdomains)
               = successCount * 100 * wres.SuccessRate[2]
        /\ EveryProbeSameIP => wres.IsWildcard

============================================================================
